---------------------------- MODULE Spec2Model ----------------------------
(***************************************************************************)
(* A model of the rf-ace Treedata engine (src/src/datadefs.hpp): the       *)
(* feature matrix with its contrast columns, bootstrap sampling over the   *)
(* real (non-NaN) samples of a column and the numerical / categorical      *)
(* split searches.                                                         *)
(*                                                                         *)
(* Conventions.  Sample indices and vector positions are 0-based as in the *)
(* code; a C++ vector is a TLA+ sequence s and s[i+1] is its i'th element  *)
(* (operator At).  A stored value (num_t in a data column) is an integer   *)
(* or NUM_NAN.  A computed num_t (mean, squared error, fitness) is an      *)
(* extended rational <<n, d>> with d >= 0 in lowest terms; <<0,0>> is NaN, *)
(* <<1,0>> is +inf and <<-1,0>> is -inf, with IEEE-754 propagation.        *)
(* Rounding of doubles is not modelled: arithmetic is exact.               *)
(***************************************************************************)
EXTENDS Integers, Sequences, FiniteSets, TLC

VARIABLES
  features,      \* features_: 0..2F-1 -> Feature, data: 0..N-1 -> value
  name2idx,      \* name2idx_: feature name -> position in features_
  sampleHeaders, \* sampleHeaders_
  rngDraws,      \* number of values taken from randomInteger_ so far
  twin,          \* the seed of the construction and, where two objects are
                 \* compared, the second object built from the same input
  op,            \* the operation that produced this state
  arg,           \* the arguments of that operation (in/out parameters on entry)
  ret,           \* what the operation left in its out parameters and returned
  locals,        \* the local variables of a call that is followed step by step
  options        \* the General_options object built from the command line

vars ==
  <<features, name2idx, sampleHeaders, rngDraws, twin, op, arg, ret, locals, options>>

\* everything a Treedata object holds besides its generator
dataset == <<features, name2idx, sampleHeaders>>

----------------------------------------------------------------------------
(* Bounds of the model *)

\* length of the longest candidate sample index list handed to a split
MaxIcs == 4

\* largest minSamples tried
MaxMinSamples == 2

\* cap on the draw counter (the generator itself is unbounded)
MaxDraws == 12

----------------------------------------------------------------------------
(* datadefs: NaN *)

\* encoding of datadefs::NUM_NAN inside a data column; no real value is negative
NUM_NAN == -1

isNAN(value) == value = NUM_NAN

\* operator== of two doubles: NaN equals nothing, not even itself
NumEq(a, b) == ~isNAN(a) /\ ~isNAN(b) /\ a = b

At(s, i) == s[i + 1]

Range0(n) == [i \in 1..n |-> i - 1]

\* a local of the code: v is computed once and Op works on its value
With(v, Op(_)) == Op(v)

----------------------------------------------------------------------------
(* Extended rationals: the arithmetic of num_t *)

Abs(x) == IF x < 0 THEN -x ELSE x

Sign(x) == IF x < 0 THEN -1 ELSE IF x > 0 THEN 1 ELSE 0

RECURSIVE Gcd(_, _)
Gcd(a, b) == IF b = 0 THEN a ELSE Gcd(b, a % b)

Norm(n, d) ==
  IF d = 0 THEN <<Sign(n), 0>>
  ELSE LET s == IF d < 0 THEN -1 ELSE 1
           g == Gcd(Abs(n), Abs(d))
       IN  <<(s * n) \div g, (s * d) \div g>>

RNaN == <<0, 0>>
RZero == <<0, 1>>

RisNAN(a) == a[2] = 0 /\ a[1] = 0

\* a stored value as a num_t operand
R(v) == IF isNAN(v) THEN RNaN ELSE <<v, 1>>

RAdd(a, b) ==
  IF a[2] = 0 /\ b[2] = 0
    THEN (IF a[1] = b[1] THEN a ELSE RNaN)
    ELSE Norm(a[1] * b[2] + b[1] * a[2], a[2] * b[2])

RNeg(a) == <<-a[1], a[2]>>

RSub(a, b) == RAdd(a, RNeg(b))

RMul(a, b) == Norm(a[1] * b[1], a[2] * b[2])

RDiv(a, b) ==
  IF b[1] < 0 THEN Norm(-(a[1] * b[2]), a[2] * (-b[1]))
              ELSE Norm(a[1] * b[2], a[2] * b[1])

RLt(a, b) ==
  /\ ~RisNAN(a)
  /\ ~RisNAN(b)
  /\ IF a[2] = 0 /\ b[2] = 0 THEN a[1] < b[1]
                             ELSE a[1] * b[2] < b[1] * a[2]

RGt(a, b) == RLt(b, a)


----------------------------------------------------------------------------
(* math: incremental statistics *)

\* what a decrement down to an empty accumulator may leave behind: the
\* accumulator reset to (0, 0), or the recurrence evaluated with a division
\* by zero
UndefModes == {"reset", "ieee"}

\* add x as the n'th sample of an accumulator (mu, se); yields <<mu', se'>>
incrementSquaredError(x, n, mu, se) ==
  With(RSub(x, mu), LAMBDA delta :
  With(RAdd(mu, RDiv(delta, <<n, 1>>)), LAMBDA mu2 :
    <<mu2, RAdd(se, RMul(delta, RSub(x, mu2)))>>))

\* remove x from an accumulator (mu, se), n being the count that remains
decrementSquaredError(x, n, mu, se, undef) ==
  IF n = 0 /\ undef = "reset" THEN <<RZero, RZero>>
  ELSE With(RSub(x, mu), LAMBDA delta :
       With(RSub(mu, RDiv(delta, <<n, 1>>)), LAMBDA mu2 :
         <<mu2, RSub(se, RMul(delta, RSub(x, mu2)))>>))

\* a frequency table is a function from the categories seen to their counts
FreqOf(freq, c) == IF c \in DOMAIN freq THEN freq[c] ELSE 0

FreqSet(freq, c, k) == [d \in (DOMAIN freq) \cup {c} |-> IF d = c THEN k ELSE freq[d]]

EmptyFreq == [d \in {} |-> 0]

\* add one sample of category x; yields <<freq', sf'>>
incrementSquaredFrequency(x, freq, sf) ==
  <<FreqSet(freq, x, FreqOf(freq, x) + 1), sf + 2 * FreqOf(freq, x) + 1>>

\* a removal that takes the square of the count down by one step too many
decrementSquaredFrequency_OffByTwo(x, freq, sf) ==
  <<FreqSet(freq, x, FreqOf(freq, x) - 1), sf - 2 * FreqOf(freq, x) - 1>>

\* remove one sample of category x; yields <<freq', sf'>>
decrementSquaredFrequency(x, freq, sf) ==
  <<FreqSet(freq, x, FreqOf(freq, x) - 1), sf - 2 * FreqOf(freq, x) + 1>>

RECURSIVE SumSeq(_)
SumSeq(s) == IF s = <<>> THEN RZero ELSE RAdd(Head(s), SumSeq(Tail(s)))

mean(x) == RDiv(SumSeq([i \in 1..Len(x) |-> R(x[i])]), <<Len(x), 1>>)

squaredError(x, mu) ==
  SumSeq([i \in 1..Len(x) |-> RMul(RSub(R(x[i]), mu), RSub(R(x[i]), mu))])

----------------------------------------------------------------------------
(* utils: filterSort *)

\* insert the pair p behind every pair whose value is not greater (stable)
RECURSIVE InsertSorted(_, _)
InsertSorted(s, p) ==
  IF s = <<>> THEN <<p>>
  ELSE IF p[1] < Head(s)[1] THEN <<p>> \o s
  ELSE <<Head(s)>> \o InsertSorted(Tail(s), p)

RECURSIVE SortPairs(_, _)
SortPairs(pairs, acc) ==
  IF pairs = <<>> THEN acc
  ELSE SortPairs(Tail(pairs), InsertSorted(acc, Head(pairs)))

\* drops the NaNs of data, sorts the rest ascending and reports in refIcs
\* the original position of every value kept
filterSort(data) ==
  LET paired == [i \in 1..Len(data) |-> <<data[i], i - 1>>]
      real   == SelectSeq(paired, LAMBDA p : ~isNAN(p[1]))
  IN  With(SortPairs(real, <<>>), LAMBDA sorted :
        [data   |-> [i \in 1..Len(sorted) |-> sorted[i][1]],
         refIcs |-> [i \in 1..Len(sorted) |-> sorted[i][2]]])

----------------------------------------------------------------------------
(* Treedata: data access *)

\* getFeatureData(featureIdx, sampleIcs)
getFeatureData(F, featureIdx, sampleIcs) ==
  [i \in 1..Len(sampleIcs) |-> F[featureIdx].data[sampleIcs[i]]]

isFeatureNumerical(F, featureIdx) == F[featureIdx].isNumerical

\* yields the filtered and sorted sampleIcs with targetData and featureData
getFilteredAndSortedFeatureDataPair3(F, targetIdx, featureIdx, sampleIcs) ==
  With(filterSort(getFeatureData(F, featureIdx, sampleIcs)), LAMBDA fs :
  With([i \in 1..Len(fs.refIcs) |-> At(sampleIcs, fs.refIcs[i])], LAMBDA ics2 :
    [sampleIcs   |-> ics2,
     targetData  |-> getFeatureData(F, targetIdx, ics2),
     featureData |-> fs.data]))

\* getFilteredFeatureDataPair testing only the second column for NaN
getFilteredFeatureDataPair_SecondOnly(F, featureIdx1, featureIdx2, sampleIcs) ==
  LET ics2 == SelectSeq(sampleIcs, LAMBDA idx : ~isNAN(F[featureIdx2].data[idx]))
  IN  [sampleIcs    |-> ics2,
       featureData1 |-> getFeatureData(F, featureIdx1, ics2),
       featureData2 |-> getFeatureData(F, featureIdx2, ics2)]

\* yields the filtered sampleIcs with featureData1 and featureData2
getFilteredFeatureDataPair(F, featureIdx1, featureIdx2, sampleIcs) ==
  LET keep(idx) == /\ ~isNAN(F[featureIdx1].data[idx])
                   /\ ~isNAN(F[featureIdx2].data[idx])
      ics2 == SelectSeq(sampleIcs, keep)
  IN  [sampleIcs    |-> ics2,
       featureData1 |-> getFeatureData(F, featureIdx1, ics2),
       featureData2 |-> getFeatureData(F, featureIdx2, ics2)]

\* a fitness with the sign of its numerator turned round
getCategoricalSplitFitness_Negated(sf_tot, nsf_best, n_tot) ==
  RDiv(RSub(<<sf_tot, 1>>, RMul(<<n_tot, 1>>, nsf_best)),
       <<n_tot * n_tot - sf_tot, 1>>)

getCategoricalSplitFitness(sf_tot, nsf_best, n_tot) ==
  RDiv(RAdd(<<-sf_tot, 1>>, RMul(<<n_tot, 1>>, nsf_best)),
       <<n_tot * n_tot - sf_tot, 1>>)

getNumericalSplitFitness(se_tot, se_best) == RDiv(RSub(se_tot, se_best), se_tot)

----------------------------------------------------------------------------
(* Treedata::numericalFeatureSplit *)

\* first loop of the numerical-target branch: se_left[0..n_tot-1], the
\* sample counter n and the running mean
RECURSIVE SeLeftLoop(_, _, _, _, _)
SeLeftLoop(tv, i, n, mu_left, se_left) ==
  IF i >= Len(tv) THEN [n |-> n, mu_left |-> mu_left, se_left |-> se_left]
  ELSE With(incrementSquaredError(R(At(tv, i)), n + 1, mu_left, At(se_left, i - 1)),
            LAMBDA inc : SeLeftLoop(tv, i + 1, n + 1, inc[1], Append(se_left, inc[2])))

\* a tie test that also skips the last boundary the sweep can reach
NumTargetTieSkip_Always(tv, minSamples, i) == NumEq(At(tv, i - 1), At(tv, i))

\* the "sample is repeated and we can continue" test of the numerical-target sweep
NumTargetTieSkip(tv, minSamples, i) ==
  i - 1 >= minSamples /\ NumEq(At(tv, i - 1), At(tv, i))

\* second loop of the numerical-target branch, from i down to minSamples
RECURSIVE NumTargetSweep(_, _, _, _, _, _, _, _, _)
NumTargetSweep(tv, se_left, minSamples, i, n, mu_right, se_right, se_best, bestSplitIdx) ==
  IF i < minSamples
    THEN [se_right |-> se_right, se_best |-> se_best, bestSplitIdx |-> bestSplitIdx]
    ELSE With(incrementSquaredError(R(At(tv, i)), n + 1, mu_right, se_right), LAMBDA inc :
         With(RAdd(At(se_left, i - 1), inc[2]), LAMBDA cost :
           IF NumTargetTieSkip(tv, minSamples, i)
             THEN NumTargetSweep(tv, se_left, minSamples, i - 1, n + 1,
                                 inc[1], inc[2], se_best, bestSplitIdx)
           ELSE IF RLt(cost, se_best)
             THEN NumTargetSweep(tv, se_left, minSamples, i - 1, n + 1,
                                 inc[1], inc[2], cost, i - 1)
           ELSE NumTargetSweep(tv, se_left, minSamples, i - 1, n + 1,
                               inc[1], inc[2], se_best, bestSplitIdx)))

\* the numerical-target branch: which assertion stops it (if any), the best
\* boundary and the fitness
NumTargetBranch(tv, minSamples) ==
  LET n_tot == Len(tv)
  IN  With(SeLeftLoop(tv, 1, 1, R(At(tv, 0)), <<RZero>>), LAMBDA L :
      With(At(L.se_left, n_tot - 1), LAMBDA se_tot :
      With(NumTargetSweep(tv, L.se_left, minSamples, n_tot - 1, 0,
                          RZero, RZero, se_tot, -1), LAMBDA S :
        [failed |-> IF L.n # n_tot THEN "assert n == n_tot"
                    ELSE IF RisNAN(se_tot) THEN "assert !isNAN(se_left.back())"
                    ELSE IF RisNAN(S.se_right) THEN "assert !isNAN(se_right)"
                    ELSE "none",
         bestSplitIdx |-> S.bestSplitIdx,
         splitFitness |-> getNumericalSplitFitness(se_tot, S.se_best)])))

\* first loop of the categorical-target branch: sf_left[0..n_tot-1]
RECURSIVE SfLeftLoop(_, _, _, _, _)
SfLeftLoop(tv, i, n_left, freq_left, sf_left) ==
  IF i >= Len(tv) THEN [n_left |-> n_left, sf_left |-> sf_left]
  ELSE With(incrementSquaredFrequency(At(tv, i), freq_left, At(sf_left, i - 1)),
            LAMBDA inc : SfLeftLoop(tv, i + 1, n_left + 1, inc[1], Append(sf_left, inc[2])))

\* the "repeated samples and can continue" test of the categorical-target sweep
CatTargetTieSkip(tv, minSamples, i) ==
  i - 1 > minSamples /\ NumEq(At(tv, i - 1), At(tv, i))

\* second loop of the categorical-target branch, from i down to minSamples
RECURSIVE CatTargetSweep(_, _, _, _, _, _, _, _, _, _)
CatTargetSweep(tv, sf_left, minSamples, i, n_left, n_right, freq_right, sf_right, nsf_best, bestSplitIdx) ==
  IF i < minSamples
    THEN [nsf_best |-> nsf_best, bestSplitIdx |-> bestSplitIdx]
    ELSE With(incrementSquaredFrequency(At(tv, i), freq_right, sf_right), LAMBDA inc :
         LET nr  == n_right + 1
             nl  == n_left - 1
             lhs == <<nr * At(sf_left, i - 1) + nl * inc[2], 1>>
             rhs == RMul(<<nl * nr, 1>>, nsf_best)
         IN  IF CatTargetTieSkip(tv, minSamples, i)
               THEN CatTargetSweep(tv, sf_left, minSamples, i - 1, nl, nr,
                                   inc[1], inc[2], nsf_best, bestSplitIdx)
             ELSE IF RGt(lhs, rhs) /\ nl >= minSamples
               THEN CatTargetSweep(tv, sf_left, minSamples, i - 1, nl, nr, inc[1], inc[2],
                                   RAdd(RDiv(<<At(sf_left, i - 1), 1>>, <<nl, 1>>),
                                         RDiv(<<inc[2], 1>>, <<nr, 1>>)), i - 1)
             ELSE CatTargetSweep(tv, sf_left, minSamples, i - 1, nl, nr,
                                 inc[1], inc[2], nsf_best, bestSplitIdx))

\* a NaN among the keys of the std::map frequency tables breaks the strict
\* weak ordering the map requires: the counts it then reports, and with them
\* every comparison of the sweep and the fitness, are arbitrary.  ub = <<idx,
\* fitness>> is the outcome taken in that case.
HasNaN(tv) == \E i \in 1..Len(tv) : isNAN(tv[i])

UBFitness == {RNaN, <<1, 2>>}

UBChoices(n_tot, minSamples) ==
  ({-1} \cup ((minSamples - 1)..(n_tot - 2))) \X UBFitness

NoUB == <<-1, RNaN>>

CatTargetBranch(tv, minSamples, ub) ==
  LET n_tot == Len(tv)
  IN  IF HasNaN(tv)
        THEN [failed |-> "none", bestSplitIdx |-> ub[1], splitFitness |-> ub[2]]
        ELSE With(SfLeftLoop(tv, 1, 1, FreqSet(EmptyFreq, At(tv, 0), 1), <<1>>), LAMBDA L :
             With(At(L.sf_left, n_tot - 1), LAMBDA sf_tot :
             With(CatTargetSweep(tv, L.sf_left, minSamples, n_tot - 1, L.n_left, 0,
                                 EmptyFreq, 0, <<sf_tot \div L.n_left, 1>>, -1), LAMBDA S :
               [failed |-> IF L.n_left # n_tot THEN "assert n_left == n_tot" ELSE "none",
                bestSplitIdx |-> S.bestSplitIdx,
                splitFitness |-> getCategoricalSplitFitness(sf_tot, S.nsf_best, n_tot)])))

\* the threshold taken from the first row of the right side
SplitValueAt_NextRow(fv, bestSplitIdx) == At(fv, bestSplitIdx + 1)

\* the threshold of the boundary behind position bestSplitIdx
SplitValueAt(fv, bestSplitIdx) == At(fv, bestSplitIdx)

\* the whole call.  left and right are sampleIcs_left and sampleIcs_right on
\* entry, splitValue the caller's value of the out parameter.  status is
\* "returned" or the assertion that aborted the run.
numericalFeatureSplit(F, targetIdx, featureIdx, minSamples, left, right, splitValue, ub) ==
  With(getFilteredAndSortedFeatureDataPair3(F, targetIdx, featureIdx, right), LAMBDA P :
    LET tv    == P.targetData
        fv    == P.featureData
        n_tot == Len(fv)
        base  == [status |-> "returned", fitness |-> RNaN, splitValue |-> splitValue,
                  sampleIcs_left |-> <<>>, sampleIcs_right |-> P.sampleIcs,
                  tv |-> tv, fv |-> fv, bestSplitIdx |-> -1]
    IN  IF n_tot < 2 * minSamples THEN base
        ELSE With(IF isFeatureNumerical(F, targetIdx)
                    THEN NumTargetBranch(tv, minSamples)
                    ELSE CatTargetBranch(tv, minSamples, ub), LAMBDA B :
          LET n_left   == B.bestSplitIdx + 1
              newLeft  == SubSeq(P.sampleIcs, 1, n_left)
              newRight == SubSeq(P.sampleIcs, n_left + 1, Len(P.sampleIcs))
          IN  IF B.failed # "none" THEN [base EXCEPT !.status = B.failed]
              ELSE IF B.bestSplitIdx = -1 THEN base
              ELSE [base EXCEPT
                      !.status = IF n_left + Len(newRight) = n_tot
                                   THEN "returned" ELSE "assert n_left + n_right == n_tot",
                      !.fitness = B.splitFitness,
                      !.splitValue = SplitValueAt(fv, B.bestSplitIdx),
                      !.sampleIcs_left = newLeft,
                      !.sampleIcs_right = newRight,
                      !.bestSplitIdx = B.bestSplitIdx]))

----------------------------------------------------------------------------
(* Treedata::categoricalFeatureSplit *)

\* datadefs::map_data: category -> the positions of data that hold it, in
\* ascending order; NaNs are left out
map_data(data) ==
  LET cats == { data[i] : i \in { j \in 1..Len(data) : ~isNAN(data[j]) } }
  IN  [c \in cats |-> SelectSeq(Range0(Len(data)), LAMBDA k : At(data, k) = c)]

nRealValues(data) == Cardinality({ j \in 1..Len(data) : ~isNAN(data[j]) })

\* the keys from the greatest to the smallest
RECURSIVE KeysDescending(_)
KeysDescending(keys) ==
  IF keys = {} THEN <<>>
  ELSE LET m == CHOOSE k \in keys : \A o \in keys : k >= o
       IN  <<m>> \o KeysDescending(keys \ {m})

\* the keys of a std::map in iteration order
RECURSIVE KeysAscending(_)
KeysAscending(keys) ==
  IF keys = {} THEN <<>>
  ELSE LET m == CHOOSE k \in keys : \A o \in keys : k <= o
       IN  <<m>> \o KeysAscending(keys \ {m})

\* numerical target: take the samples at positions ps[k..] from right to left
RECURSIVE NumMoveLeft(_, _, _, _, _)
NumMoveLeft(tv, ps, k, st, undef) ==
  IF k > Len(ps) THEN st
  ELSE LET x == R(At(tv, ps[k]))
       IN  With(incrementSquaredError(x, st.n_left + 1, st.mu_left, st.se_left), LAMBDA l :
           With(decrementSquaredError(x, st.n_right - 1, st.mu_right, st.se_right, undef),
                LAMBDA r :
             NumMoveLeft(tv, ps, k + 1,
                         [n_left |-> st.n_left + 1, mu_left |-> l[1], se_left |-> l[2],
                          n_right |-> st.n_right - 1, mu_right |-> r[1], se_right |-> r[2]],
                         undef)))

\* numerical target: take the samples at positions ps[k..] from left to right
RECURSIVE NumMoveRight(_, _, _, _, _)
NumMoveRight(tv, ps, k, st, undef) ==
  IF k > Len(ps) THEN st
  ELSE LET x == R(At(tv, ps[k]))
       IN  With(incrementSquaredError(x, st.n_right + 1, st.mu_right, st.se_right), LAMBDA r :
           With(decrementSquaredError(x, st.n_left - 1, st.mu_left, st.se_left, undef),
                LAMBDA l :
             NumMoveRight(tv, ps, k + 1,
                          [n_left |-> st.n_left - 1, mu_left |-> l[1], se_left |-> l[2],
                           n_right |-> st.n_right + 1, mu_right |-> r[1], se_right |-> r[2]],
                          undef)))

\* a tentative split as good as the best one so far replaces it
NumImproves_OrEqual(moved, se_best) ==
  ~RLt(se_best, RAdd(moved.se_left, moved.se_right))

\* numerical target: does the tentative split beat the best one so far
NumImproves(moved, se_best) == RLt(RAdd(moved.se_left, moved.se_right), se_best)

\* numerical target: the for loop that tests the categories cs[k..] of the
\* right side one by one; it_best is {} for fmap_right.end()
RECURSIVE NumTrialLoop(_, _, _, _, _, _, _, _)
NumTrialLoop(tv, fmap_right, cs, k, st, se_best, it_best, undef) ==
  IF k > Len(cs) THEN [st |-> st, se_best |-> se_best, it_best |-> it_best]
  ELSE With(NumMoveLeft(tv, fmap_right[cs[k]], 1, st, undef), LAMBDA moved :
       With(NumMoveRight(tv, fmap_right[cs[k]], 1, moved, undef), LAMBDA back :
         IF NumImproves(moved, se_best)
           THEN NumTrialLoop(tv, fmap_right, cs, k + 1, back,
                             RAdd(moved.se_left, moved.se_right), {cs[k]}, undef)
           ELSE NumTrialLoop(tv, fmap_right, cs, k + 1, back, se_best, it_best, undef)))

Restrict(f, keys) == [c \in keys |-> f[c]]

\* numerical target: the while loop
RECURSIVE NumGreedyLoop(_, _, _, _, _, _)
NumGreedyLoop(tv, fmap_left, fmap_right, st, se_best, undef) ==
  IF Cardinality(DOMAIN fmap_right) <= 1
    THEN [fmap_left |-> fmap_left, fmap_right |-> fmap_right, st |-> st, se_best |-> se_best]
    ELSE With(NumTrialLoop(tv, fmap_right, KeysAscending(DOMAIN fmap_right), 1,
                           st, se_best, {}, undef), LAMBDA T :
           IF T.it_best = {}
             THEN [fmap_left |-> fmap_left, fmap_right |-> fmap_right,
                   st |-> T.st, se_best |-> T.se_best]
             ELSE LET c == CHOOSE b \in T.it_best : TRUE
                  IN  NumGreedyLoop(tv,
                        [d \in (DOMAIN fmap_left) \cup {c} |->
                           IF d \in DOMAIN fmap_left THEN fmap_left[d] ELSE fmap_right[c]],
                        Restrict(fmap_right, (DOMAIN fmap_right) \ {c}),
                        NumMoveLeft(tv, fmap_right[c], 1, T.st, undef),
                        T.se_best, undef))

\* categorical target: take the samples at positions ps[k..] from right to left
RECURSIVE CatMoveLeft(_, _, _, _)
CatMoveLeft(tv, ps, k, st) ==
  IF k > Len(ps) THEN st
  ELSE With(incrementSquaredFrequency(At(tv, ps[k]), st.freq_left, st.sf_left), LAMBDA l :
       With(decrementSquaredFrequency(At(tv, ps[k]), st.freq_right, st.sf_right), LAMBDA r :
         CatMoveLeft(tv, ps, k + 1,
                     [n_left |-> st.n_left + 1, freq_left |-> l[1], sf_left |-> l[2],
                      n_right |-> st.n_right - 1, freq_right |-> r[1], sf_right |-> r[2]])))

\* categorical target: take the samples at positions ps[k..] from left to right
RECURSIVE CatMoveRight(_, _, _, _)
CatMoveRight(tv, ps, k, st) ==
  IF k > Len(ps) THEN st
  ELSE With(incrementSquaredFrequency(At(tv, ps[k]), st.freq_right, st.sf_right), LAMBDA r :
       With(decrementSquaredFrequency(At(tv, ps[k]), st.freq_left, st.sf_left), LAMBDA l :
         CatMoveRight(tv, ps, k + 1,
                      [n_left |-> st.n_left - 1, freq_left |-> l[1], sf_left |-> l[2],
                       n_right |-> st.n_right + 1, freq_right |-> r[1], sf_right |-> r[2]])))

\* a test that lets a tentative split through that only equals the best
CatImproves_OrEqual(moved, nsf_best) ==
  ~RLt(<<moved.n_right * moved.sf_left + moved.n_left * moved.sf_right, 1>>,
       RMul(<<moved.n_left * moved.n_right, 1>>, nsf_best))

\* categorical target: does the tentative split beat the best one so far
CatImproves(moved, nsf_best) ==
  RGt(<<moved.n_right * moved.sf_left + moved.n_left * moved.sf_right, 1>>,
      RMul(<<moved.n_left * moved.n_right, 1>>, nsf_best))

\* categorical target: the for loop over the categories cs[k..] of the right side
RECURSIVE CatTrialLoop(_, _, _, _, _, _, _)
CatTrialLoop(tv, fmap_right, cs, k, st, nsf_best, it_best) ==
  IF k > Len(cs) THEN [st |-> st, nsf_best |-> nsf_best, it_best |-> it_best]
  ELSE With(CatMoveLeft(tv, fmap_right[cs[k]], 1, st), LAMBDA moved :
       With(CatMoveRight(tv, fmap_right[cs[k]], 1, moved), LAMBDA back :
         IF CatImproves(moved, nsf_best)
           THEN CatTrialLoop(tv, fmap_right, cs, k + 1, back,
                             RAdd(RDiv(<<moved.sf_left, 1>>, <<moved.n_left, 1>>),
                                  RDiv(<<moved.sf_right, 1>>, <<moved.n_right, 1>>)),
                             {cs[k]})
           ELSE CatTrialLoop(tv, fmap_right, cs, k + 1, back, nsf_best, it_best)))

\* categorical target: the while loop
RECURSIVE CatGreedyLoop(_, _, _, _, _)
CatGreedyLoop(tv, fmap_left, fmap_right, st, nsf_best) ==
  IF Cardinality(DOMAIN fmap_right) <= 1
    THEN [fmap_left |-> fmap_left, fmap_right |-> fmap_right, st |-> st, nsf_best |-> nsf_best]
    ELSE With(CatTrialLoop(tv, fmap_right, KeysAscending(DOMAIN fmap_right), 1,
                           st, nsf_best, {}), LAMBDA T :
           IF T.it_best = {}
             THEN [fmap_left |-> fmap_left, fmap_right |-> fmap_right,
                   st |-> T.st, nsf_best |-> T.nsf_best]
             ELSE LET c == CHOOSE b \in T.it_best : TRUE
                  IN  CatGreedyLoop(tv,
                        [d \in (DOMAIN fmap_left) \cup {c} |->
                           IF d \in DOMAIN fmap_left THEN fmap_left[d] ELSE fmap_right[c]],
                        Restrict(fmap_right, (DOMAIN fmap_right) \ {c}),
                        CatMoveLeft(tv, fmap_right[c], 1, T.st),
                        T.nsf_best))

RECURSIVE CatFreqLoop(_, _, _, _)
CatFreqLoop(tv, i, freq, sf) ==
  IF i >= Len(tv) THEN <<freq, sf>>
  ELSE With(incrementSquaredFrequency(At(tv, i), freq, sf),
            LAMBDA inc : CatFreqLoop(tv, i + 1, inc[1], inc[2]))

\* PopulateSide storing the positions it->second[i] instead of sampleIcs[...]
RECURSIVE PopulateSide_Positions(_, _, _)
PopulateSide_Positions(fmap, cs, sampleIcs) ==
  IF cs = <<>> THEN <<>>
  ELSE fmap[Head(cs)] \o PopulateSide_Positions(fmap, Tail(cs), sampleIcs)

\* the sample indices of the categories of fmap, category by category
RECURSIVE PopulateSide(_, _, _)
PopulateSide(fmap, cs, sampleIcs) ==
  IF cs = <<>> THEN <<>>
  ELSE [i \in 1..Len(fmap[Head(cs)]) |-> At(sampleIcs, fmap[Head(cs)][i])]
         \o PopulateSide(fmap, Tail(cs), sampleIcs)

\* the final guard testing the left branch only
CatSizeGuard_LeftOnly(n_left, n_right, minSamples) == ~(n_left < minSamples)

\* does the final guard on the branch sizes let the split through
CatSizeGuard(n_left, n_right, minSamples) ==
  ~(n_left < minSamples \/ n_right < minSamples)

\* the end of the call, behind the greedy loop: G holds fmap_left, fmap_right,
\* the running statistics st and the best value (se_best or nsf_best) as the
\* loop left them; tot is se_tot or sf_tot
CatSplitReturn(base, sampleIcs, isNum, tot, n_tot, minSamples, G) ==
  LET splitFitness == IF isNum THEN getNumericalSplitFitness(tot, G.se_best)
                      ELSE getCategoricalSplitFitness(tot, G.nsf_best, n_tot)
      newLeft  == PopulateSide(G.fmap_left, KeysAscending(DOMAIN G.fmap_left), sampleIcs)
      newRight == PopulateSide(G.fmap_right, KeysAscending(DOMAIN G.fmap_right), sampleIcs)
  IN  IF ~CatSizeGuard(G.st.n_left, G.st.n_right, minSamples)
        THEN [base EXCEPT !.n_left = G.st.n_left, !.n_right = G.st.n_right,
                          !.commits = Cardinality(DOMAIN G.fmap_left)]
      ELSE [base EXCEPT
              !.status = IF G.st.n_left + G.st.n_right # n_tot
                           THEN "assert n_left + n_right == n_tot"
                         ELSE IF Len(newLeft) # G.st.n_left
                           THEN "assert iter == n_left"
                         ELSE IF Len(newRight) # G.st.n_right
                           THEN "assert iter == n_right"
                         ELSE "returned",
              !.fitness = splitFitness,
              !.sampleIcs_left = newLeft,
              !.sampleIcs_right = newRight,
              !.splitValues_left = DOMAIN G.fmap_left,
              !.splitValues_right = DOMAIN G.fmap_right,
              !.n_left = G.st.n_left, !.n_right = G.st.n_right,
              !.commits = Cardinality(DOMAIN G.fmap_left)]

\* what the call returns when it leaves before the loop or fails its final
\* guard: Missing, sampleIcs_left cleared, sampleIcs_right filtered
CatSplitBase(P, values_left, values_right) ==
  [status |-> "returned", fitness |-> RNaN,
   sampleIcs_left |-> <<>>, sampleIcs_right |-> P.sampleIcs,
   splitValues_left |-> values_left, splitValues_right |-> values_right,
   tv |-> P.featureData1, fv |-> P.featureData2, n_left |-> 0,
   n_right |-> nRealValues(P.featureData2), commits |-> 0]

\* the running statistics on entry to the loop: everything is on the right
NumStats0(tv, n_tot) ==
  With(mean(tv), LAMBDA mu0 :
    [n_left |-> 0, mu_left |-> RZero, se_left |-> RZero,
     n_right |-> n_tot, mu_right |-> mu0, se_right |-> squaredError(tv, mu0)])

CatStats0(tv, n_tot) ==
  With(CatFreqLoop(tv, 0, EmptyFreq, 0), LAMBDA fq0 :
    [n_left |-> 0, freq_left |-> EmptyFreq, sf_left |-> 0,
     n_right |-> n_tot, freq_right |-> fq0[1], sf_right |-> fq0[2]])

\* the whole call.  left, right, values_left and values_right are the in/out
\* parameters on entry.
categoricalFeatureSplit(F, targetIdx, featureIdx, minSamples, left, right, values_left, values_right, undef) ==
  With(getFilteredFeatureDataPair(F, targetIdx, featureIdx, right), LAMBDA P :
    LET tv    == P.featureData1
        fv    == P.featureData2
        fmap0 == map_data(fv)
        n_tot == nRealValues(fv)
        isNum == isFeatureNumerical(F, targetIdx)
    IN  IF n_tot < 2 * minSamples THEN CatSplitBase(P, values_left, values_right)
        ELSE IF isNum
          THEN With(NumStats0(tv, n_tot), LAMBDA st0 :
                 CatSplitReturn(CatSplitBase(P, values_left, values_right), P.sampleIcs,
                                TRUE, st0.se_right, n_tot, minSamples,
                                NumGreedyLoop(tv, [d \in {} |-> <<>>], fmap0, st0,
                                              st0.se_right, undef)))
          ELSE With(CatStats0(tv, n_tot), LAMBDA st0 :
                 CatSplitReturn(CatSplitBase(P, values_left, values_right), P.sampleIcs,
                                FALSE, st0.sf_right, n_tot, minSamples,
                                CatGreedyLoop(tv, [d \in {} |-> <<>>], fmap0, st0,
                                              RDiv(<<st0.sf_right, 1>>, <<n_tot, 1>>)))))

----------------------------------------------------------------------------
(* Treedata: construction and contrasts *)

nSamples(F) == Cardinality(DOMAIN F[0].data)

nFeatures(F) == Cardinality(DOMAIN F) \div 2

Swap(s, i, j) == [s EXCEPT ![i + 1] = s[j + 1], ![j + 1] = s[i + 1]]

\* Fisher-Yates shuffle of data; draws[i+1] is the value randomInteger_()
\* returns in round i
RECURSIVE PermuteLoop(_, _, _)
PermuteLoop(data, draws, i) ==
  IF i >= Len(data) THEN data
  ELSE PermuteLoop(Swap(data, i, At(draws, i) % (i + 1)), draws, i + 1)

permute(data, draws) == PermuteLoop(data, draws, 0)

\* getFilteredFeatureData(featureIdx, sampleIcs): the real values and their indices
getFilteredFeatureData(F, featureIdx, sampleIcs) ==
  LET ics2 == SelectSeq(sampleIcs, LAMBDA idx : ~isNAN(F[featureIdx].data[idx]))
  IN  [sampleIcs |-> ics2, featureData |-> getFeatureData(F, featureIdx, ics2)]

\* a round that writes the shuffled values to the first rows of the column
\* and leaves the missing values behind them
permuteContrast_ShiftsMissing(F, i, draws) ==
  With(getFilteredFeatureData(F, i, Range0(nSamples(F))), LAMBDA flt :
  With(permute(flt.featureData, draws), LAMBDA perm :
    [F EXCEPT ![i].data =
       [idx \in DOMAIN F[i].data |->
          IF idx < Len(perm) THEN perm[idx + 1] ELSE NUM_NAN]]))

\* one round of permuteContrasts: contrast column i, shuffled with draws
permuteContrast(F, i, draws) ==
  With(getFilteredFeatureData(F, i, Range0(nSamples(F))), LAMBDA flt :
  With(permute(flt.featureData, draws), LAMBDA perm :
    LET pos(idx) == CHOOSE j \in 1..Len(flt.sampleIcs) : flt.sampleIcs[j] = idx
    IN  [F EXCEPT ![i].data =
           [idx \in DOMAIN F[i].data |->
              IF isNAN(F[i].data[idx]) THEN F[i].data[idx] ELSE perm[pos(idx)]]]))

\* permuteContrasts with every draw of the generator given by stream
RECURSIVE permuteContrastsFrom(_, _, _)
permuteContrastsFrom(F, i, stream) ==
  IF i >= 2 * nFeatures(F) THEN F
  ELSE LET n == Len(getFilteredFeatureData(F, i, Range0(nSamples(F))).sampleIcs)
       IN  permuteContrastsFrom(permuteContrast(F, i, SubSeq(stream, 1, n)),
                                i + 1, SubSeq(stream, n + 1, Len(stream)))

permuteContrasts(F, stream) == permuteContrastsFrom(F, nFeatures(F), stream)

\* the number of draws permuteContrasts takes
RECURSIVE nContrastDraws(_, _)
nContrastDraws(F, i) ==
  IF i >= 2 * nFeatures(F) THEN 0
  ELSE Len(getFilteredFeatureData(F, i, Range0(nSamples(F))).sampleIcs)
         + nContrastDraws(F, i + 1)

\* the constructor, from the parsed columns: the contrast columns are copies
\* of the user columns, permuted with the draws of the seeded generator
Treedata(columns, stream) ==
  LET nF == Len(columns)
      F0 == [i \in 0..(2 * nF - 1) |-> IF i < nF THEN columns[i + 1] ELSE columns[i - nF + 1]]
  IN  permuteContrasts(F0, stream)

\* a parsed column
Column(isNum, values) ==
  [isNumerical |-> isNum, data |-> [i \in 0..(Len(values) - 1) |-> values[i + 1]]]

\* the dataset of the split searches: a numerical and a categorical target
\* (columns 0, 1), a numerical and a categorical feature (columns 2, 3).
\* Every combination of a missing / repeated / distinct target value with a
\* missing / tied / distinct feature value occurs among the rows.
SplitColumns ==
  << Column(TRUE,  <<1, 2, 1, 2, NUM_NAN, 3, 3>>),
     Column(FALSE, <<0, 1, 0, 1, NUM_NAN, 2, 2>>),
     Column(TRUE,  <<1, 1, 2, 2, 2, NUM_NAN, 3>>),
     Column(FALSE, <<0, 0, 1, 1, 1, NUM_NAN, 2>>) >>

\* the dataset of the bootstrap: columns with no, some and only missing values
BootColumns ==
  << Column(TRUE,  <<1, 2, 3, 4>>),
     Column(FALSE, <<NUM_NAN, 0, NUM_NAN, 1>>),
     Column(TRUE,  <<NUM_NAN, NUM_NAN, NUM_NAN, NUM_NAN>>),
     Column(TRUE,  <<5, NUM_NAN, 5, 7>>) >>

\* an upper bound of the number of draws the constructor takes
StreamLen(columns) == Len(columns) * Cardinality(DOMAIN columns[1].data)

\* the outputs of the seeded generator during construction: a stream of
\* zeros, or 2, 3, 4, ...
SeedStreams(len) == { [k \in 1..len |-> 0], [k \in 1..len |-> k + 1] }

----------------------------------------------------------------------------
(* Treedata::bootstrapFromRealSamples *)

\* std::sort of an index vector
RECURSIVE InsertAsc(_, _)
InsertAsc(s, x) ==
  IF s = <<>> THEN <<x>>
  ELSE IF x < Head(s) THEN <<x>> \o s
  ELSE <<Head(s)>> \o InsertAsc(Tail(s), x)

RECURSIVE SortAsc(_)
SortAsc(s) == IF s = <<>> THEN <<>> ELSE InsertAsc(SortAsc(Tail(s)), Head(s))

\* std::set_difference of two sorted ranges
RECURSIVE set_difference(_, _)
set_difference(a, b) ==
  IF a = <<>> THEN <<>>
  ELSE IF b = <<>> THEN a
  ELSE IF Head(a) < Head(b) THEN <<Head(a)>> \o set_difference(Tail(a), b)
  ELSE IF Head(b) < Head(a) THEN set_difference(a, Tail(b))
  ELSE set_difference(Tail(a), Tail(b))

\* allIcs collected without the NaN test
RealIcs_AllRows(F, featureIdx) == Range0(nSamples(F))

\* the indices of the real samples of a column, ascending
RealIcs(F, featureIdx) ==
  SelectSeq(Range0(nSamples(F)), LAMBDA i : ~isNAN(F[featureIdx].data[i]))

\* floor(sampleSize * nRealSamples) for sampleSize = <<p, q>>
BootSampleCount(sampleSize, nRealSamples) == (sampleSize[1] * nRealSamples) \div sampleSize[2]

\* the number of values the call takes from the generator
BootDrawCount(withReplacement, sampleSize, nRealSamples) ==
  IF withReplacement THEN BootSampleCount(sampleSize, nRealSamples) ELSE nRealSamples

\* the in-bag indices as drawn, before they are sorted
BootDrawn(withReplacement, allIcs, nSam, draws) ==
  IF withReplacement
    THEN [k \in 1..nSam |-> At(allIcs, draws[k] % Len(allIcs))]
    ELSE LET foo == permute(Range0(Len(allIcs)), draws)
         IN  [k \in 1..nSam |-> At(allIcs, foo[k])]

\* the in-bag list left as drawn
BootInBag_Unsorted(drawn) == drawn

\* the in-bag list the call leaves in ics
BootInBag(drawn) == SortAsc(drawn)

\* a failing call that has emptied the lists of the caller
BootFailure_ListsCleared(status, base) ==
  [base EXCEPT !.status = status, !.ics = <<>>, !.oobIcs = <<>>]

\* a call that fails its parameter tests leaves before it reads or writes
\* anything else
BootFailure(status, base) == [base EXCEPT !.status = status]

\* the whole call.  ics and oobIcs are the out parameters on entry; status
\* tells whether the call returned, hit its assertion or left by exit(1).
bootstrapFromRealSamples(F, withReplacement, sampleSize, featureIdx, ics, oobIcs, draws) ==
  LET allIcs == RealIcs(F, featureIdx)
      nSam   == BootSampleCount(sampleSize, Len(allIcs))
      drawn  == BootDrawn(withReplacement, allIcs, nSam, draws)
      inBag  == BootInBag(drawn)
      base   == [status |-> "returned", ics |-> ics, oobIcs |-> oobIcs,
                 allIcs |-> allIcs, drawn |-> <<>>, nDraws |-> 0]
  IN  IF ~(sampleSize[1] > 0) THEN BootFailure("assert sampleSize > 0.0", base)
      ELSE IF ~withReplacement /\ sampleSize[1] > sampleSize[2]
        THEN BootFailure("exit", base)
      ELSE [base EXCEPT !.ics = inBag,
                        !.drawn = drawn,
                        !.oobIcs = set_difference(allIcs, inBag),
                        !.nDraws = Len(draws)]

----------------------------------------------------------------------------
(* The split searches as operations of a tree builder *)

\* candidate sample index lists: every list of at most MaxIcs row indices
\* (a bootstrap sample may repeat a row)
IcsLists(n, maxLen) == UNION { [1..k -> 0..(n - 1)] : k \in 0..maxLen }

\* what the caller may hold in sampleIcs_left on entry
LeftOnEntry == { <<>>, <<0>> }

Idle == [kind |-> "none"]

\* the split and bootstrap searches start from parsed columns: the names of
\* the columns play no part in them
NoNames == [nm \in {} |-> 0]

\* the sample headers of a file without sample ids
NoSampleIds(columns) == [j \in DOMAIN columns[1].data |-> "NO_SAMPLE_ID"]

\* no second object
NoTwin == [kind |-> "none"]

\* no call is followed step by step
NoLocals == [kind |-> "none"]

\* no command line has been read
NoOptions == [kind |-> "none"]

InitSplit ==
  /\ features = Treedata(SplitColumns, [k \in 1..StreamLen(SplitColumns) |-> k])
  /\ name2idx = NoNames
  /\ sampleHeaders = NoSampleIds(SplitColumns)
  /\ twin = NoTwin
  /\ locals = NoLocals
  /\ options = NoOptions
  /\ rngDraws = 0
  /\ op = "idle"
  /\ arg = Idle
  /\ ret = Idle

NumericalFeatureSplit ==
  /\ op = "idle"
  /\ \E targetIdx \in {0, 1}, minSamples \in 1..MaxMinSamples,
        left \in LeftOnEntry, right \in IcsLists(nSamples(features), MaxIcs) :
       LET tv  == getFeatureData(features, targetIdx,
                                 SelectSeq(right, LAMBDA idx : ~isNAN(features[2].data[idx])))
           ubs == IF ~isFeatureNumerical(features, targetIdx) /\ HasNaN(tv)
                     /\ Len(tv) >= 2 * minSamples
                    THEN UBChoices(Len(tv), minSamples) ELSE {NoUB}
       IN  \E ub \in ubs :
             /\ arg' = [kind |-> "split", targetIdx |-> targetIdx, featureIdx |-> 2,
                        minSamples |-> minSamples, sampleIcs_left |-> left,
                        sampleIcs_right |-> right, splitValue |-> 0]
             /\ ret' = numericalFeatureSplit(features, targetIdx, 2, minSamples,
                                             left, right, 0, ub)
  /\ op' = "numericalFeatureSplit"
  /\ UNCHANGED <<dataset, rngDraws, twin, locals, options>>

CategoricalFeatureSplit ==
  /\ op = "idle"
  /\ \E targetIdx \in {0, 1}, minSamples \in 1..MaxMinSamples,
        left \in LeftOnEntry, right \in IcsLists(nSamples(features), MaxIcs) :
     \E undef \in IF isFeatureNumerical(features, targetIdx) THEN UndefModes ELSE {"reset"} :
       /\ arg' = [kind |-> "split", targetIdx |-> targetIdx, featureIdx |-> 3,
                  minSamples |-> minSamples, sampleIcs_left |-> left,
                  sampleIcs_right |-> right, splitValues_left |-> {},
                  splitValues_right |-> {}]
       /\ ret' = categoricalFeatureSplit(features, targetIdx, 3, minSamples,
                                         left, right, {}, {}, undef)
  /\ op' = "categoricalFeatureSplit"
  /\ UNCHANGED <<dataset, rngDraws, twin, locals, options>>

\* the caller takes the result; the next call starts from fresh arguments
Consume ==
  /\ op # "idle"
  /\ op' = "idle"
  /\ arg' = Idle
  /\ ret' = Idle
  /\ UNCHANGED <<dataset, rngDraws, twin, locals, options>>

\* sampleSize values <<p, q>> = p/q: all exact as doubles
SampleSizes == { <<0, 1>>, <<1, 2>>, <<3, 4>>, <<1, 1>>, <<3, 2>> }

\* the draw sequences of a call: one value per draw; the k'th value is
\* reduced modulo mods[k] by the code, so 0..mods[k]-1 are all its outcomes
DrawSeqs(mods) ==
  { d \in [1..Len(mods) -> 0..(nSamples(features) - 1)] : \A k \in 1..Len(mods) : d[k] < mods[k] }

InitBoot ==
  /\ \E stream \in SeedStreams(StreamLen(BootColumns)) :
        features = Treedata(BootColumns, stream)
  /\ name2idx = NoNames
  /\ sampleHeaders = NoSampleIds(BootColumns)
  /\ twin = NoTwin
  /\ locals = NoLocals
  /\ options = NoOptions
  /\ rngDraws = 0
  /\ op = "idle"
  /\ arg = Idle
  /\ ret = Idle

\* what the caller's ics and oobIcs may hold on entry: nothing, or the lists
\* of an earlier call
OutOnEntry == { [ics |-> <<>>, oobIcs |-> <<>>], [ics |-> <<0>>, oobIcs |-> <<1>>] }

BootstrapFromRealSamples ==
  /\ op = "idle"
  /\ \E withReplacement \in BOOLEAN, sampleSize \in SampleSizes,
        featureIdx \in DOMAIN features, entry \in OutOnEntry :
       LET n    == Len(RealIcs(features, featureIdx))
           fail == ~(sampleSize[1] > 0) \/ (~withReplacement /\ sampleSize[1] > sampleSize[2])
           nd   == IF fail THEN 0 ELSE BootDrawCount(withReplacement, sampleSize, n)
           mods == [k \in 1..nd |-> IF withReplacement THEN n ELSE k]
       IN  /\ rngDraws + nd <= MaxDraws
           /\ \E draws \in DrawSeqs(mods) :
                /\ arg' = [kind |-> "bootstrap", withReplacement |-> withReplacement,
                           sampleSize |-> sampleSize, featureIdx |-> featureIdx,
                           ics |-> entry.ics, oobIcs |-> entry.oobIcs,
                           draws |-> draws]
                /\ ret' = bootstrapFromRealSamples(features, withReplacement, sampleSize,
                                                   featureIdx, entry.ics, entry.oobIcs,
                                                   draws)
                /\ rngDraws' = rngDraws + nd
  /\ op' = "bootstrapFromRealSamples"
  /\ UNCHANGED <<dataset, twin, locals, options>>

NextBoot == BootstrapFromRealSamples \/ Consume

SpecBoot == InitBoot /\ [][NextBoot]_vars

NextSplit == NumericalFeatureSplit \/ CategoricalFeatureSplit \/ Consume

SpecSplit == InitSplit /\ [][NextSplit]_vars

----------------------------------------------------------------------------
(* Vocabulary of the properties *)

NumSplitReturned == op = "numericalFeatureSplit" /\ ret.status = "returned"

CatSplitReturned == op = "categoricalFeatureSplit" /\ ret.status = "returned"

BootReturned == op = "bootstrapFromRealSamples" /\ ret.status = "returned"

Missing(fitness) == RisNAN(fitness)

FeatureOf(idx) == features[arg.featureIdx].data[idx]

TargetOf(idx) == features[arg.targetIdx].data[idx]

Elems(s) == { s[i] : i \in 1..Len(s) }

Count(s, x) == Cardinality({ i \in 1..Len(s) : s[i] = x })

\* the candidate rows of the call with feature and target both present
BothReal(s) == { i \in 1..Len(s) : ~isNAN(FeatureOf(s[i])) /\ ~isNAN(TargetOf(s[i])) }

FeatureReal(s) == { i \in 1..Len(s) : ~isNAN(FeatureOf(s[i])) }

IsAscending(s) == \A i \in 1..(Len(s) - 1) : s[i] <= s[i + 1]

----------------------------------------------------------------------------
(* Properties of numericalFeatureSplit *)

\* C1: whenever numericalFeatureSplit returns a non-Missing fitness, both
\* returned partitions hold at least minSamples indices.
C1_BothSidesMinSamples ==
  (NumSplitReturned /\ ~Missing(ret.fitness)) =>
     /\ Len(ret.sampleIcs_left) >= arg.minSamples
     /\ Len(ret.sampleIcs_right) >= arg.minSamples

\* C2: whenever numericalFeatureSplit returns a non-Missing fitness, every
\* index of the right partition has a feature value strictly greater than the
\* returned threshold (the boundary never lies inside a run of equal feature
\* values).
C2_RightAboveThreshold ==
  (NumSplitReturned /\ ~Missing(ret.fitness)) =>
     \A idx \in Elems(ret.sampleIcs_right) : FeatureOf(idx) > ret.splitValue

\* C3: if all feature values of the candidate rows are equal,
\* numericalFeatureSplit returns Missing whatever the target values are.
C3_EqualFeaturesGiveMissing ==
  (/\ NumSplitReturned
   /\ \A i, j \in FeatureReal(arg.sampleIcs_right) :
         FeatureOf(arg.sampleIcs_right[i]) = FeatureOf(arg.sampleIcs_right[j]))
   => Missing(ret.fitness)

\* C4: numericalFeatureSplit works on the candidate rows with target and
\* feature both non-missing: its assertions hold for every candidate list, and
\* after a non-Missing return the partitions together hold as many indices as
\* there are such rows and no index with a Missing target.
C4_OnlyRowsWithTargetAndFeature ==
  op = "numericalFeatureSplit" =>
     /\ ret.status = "returned"
     /\ ~Missing(ret.fitness) =>
          /\ Len(ret.sampleIcs_left) + Len(ret.sampleIcs_right)
               = Cardinality(BothReal(arg.sampleIcs_right))
          /\ \A idx \in Elems(ret.sampleIcs_left) \cup Elems(ret.sampleIcs_right) :
                ~isNAN(TargetOf(idx))

\* C5 as stated: when numericalFeatureSplit or categoricalFeatureSplit returns
\* Missing, the left and right sample index lists hold after the call what
\* they held before it, in the same order.
C5_MissingLeavesPartition ==
  ((NumSplitReturned \/ CatSplitReturned) /\ Missing(ret.fitness)) =>
     /\ ret.sampleIcs_left = arg.sampleIcs_left
     /\ ret.sampleIcs_right = arg.sampleIcs_right

\* the candidate list holds a row with a feature value and a Missing target
\* of a categorical target column
CatTargetNaNAmongCandidates ==
  /\ ~isFeatureNumerical(features, arg.targetIdx)
  /\ \E i \in FeatureReal(arg.sampleIcs_right) : isNAN(TargetOf(arg.sampleIcs_right[i]))

\* C5 amended: when either split returns Missing, what sampleIcs_left held on
\* entry is discarded and the candidate rows with a missing value are dropped:
\* sampleIcs_left followed by sampleIcs_right holds exactly the candidate rows
\* that pass the call's filter -- numericalFeatureSplit: the rows with a
\* feature value, in ascending order of feature value, and sampleIcs_left is
\* empty unless a candidate row has a Missing categorical target;
\* categoricalFeatureSplit: sampleIcs_left is empty and sampleIcs_right holds
\* the rows with target and feature, in their order on entry.
C5_MissingLeavesFilteredCandidates ==
  LET both == ret.sampleIcs_left \o ret.sampleIcs_right
      IsReal(idx) == ~isNAN(FeatureOf(idx)) /\ ~isNAN(TargetOf(idx))
  IN  /\ (NumSplitReturned /\ Missing(ret.fitness)) =>
           /\ \A idx \in DOMAIN features[0].data :
                 Count(both, idx) = IF isNAN(FeatureOf(idx)) THEN 0
                                    ELSE Count(arg.sampleIcs_right, idx)
           /\ IsAscending([i \in 1..Len(both) |-> FeatureOf(both[i])])
           /\ ~CatTargetNaNAmongCandidates => ret.sampleIcs_left = <<>>
      /\ (CatSplitReturned /\ Missing(ret.fitness)) =>
           /\ ret.sampleIcs_left = <<>>
           /\ ret.sampleIcs_right = SelectSeq(arg.sampleIcs_right, IsReal)

\* the case of C5: Missing is returned to a caller whose left list was not
\* empty and whose candidates were unsorted and held a row without feature value
C5_Witness ==
  /\ NumSplitReturned
  /\ Missing(ret.fitness)
  /\ arg.sampleIcs_left # <<>>
  /\ Len(ret.sampleIcs_right) >= 2
  /\ Len(ret.sampleIcs_right) < Len(arg.sampleIcs_right)
  /\ ret.sampleIcs_right # SelectSeq(arg.sampleIcs_right, LAMBDA idx : ~isNAN(FeatureOf(idx)))

\* C6: whenever numericalFeatureSplit returns a non-Missing fitness, the
\* threshold is the feature value of the last row of the left partition and
\* no index of the left partition has a greater feature value.
C6_ThresholdIsLastLeft ==
  (NumSplitReturned /\ ~Missing(ret.fitness)) =>
     /\ ret.sampleIcs_left # <<>>
     /\ ret.splitValue = FeatureOf(ret.sampleIcs_left[Len(ret.sampleIcs_left)])
     /\ \A idx \in Elems(ret.sampleIcs_left) : FeatureOf(idx) <= ret.splitValue
     /\ IsAscending([i \in 1..Len(ret.sampleIcs_left) |-> FeatureOf(ret.sampleIcs_left[i])])

\* the case of C6: a split whose left partition spans two feature values,
\* found among candidates that were not in feature order
C6_Witness ==
  /\ NumSplitReturned
  /\ ~Missing(ret.fitness)
  /\ Len(ret.sampleIcs_left) >= 2
  /\ FeatureOf(ret.sampleIcs_left[1]) < ret.splitValue
  /\ ~IsAscending([i \in 1..Len(arg.sampleIcs_right) |-> arg.sampleIcs_right[i]])
  /\ \E i \in 1..Len(arg.sampleIcs_right) : isNAN(FeatureOf(arg.sampleIcs_right[i]))

----------------------------------------------------------------------------
(* Properties of categoricalFeatureSplit *)

\* C7: after categoricalFeatureSplit returns a non-Missing fitness the two
\* category sets are disjoint, their union is the set of categories of the
\* candidate rows that survive the missing-value filter, every left index
\* carries a left category and every right index a right category, and the
\* partitions together hold as many indices as there are filtered rows.
C7_CategoryBipartition ==
  (CatSplitReturned /\ ~Missing(ret.fitness)) =>
     /\ ret.splitValues_left \cap ret.splitValues_right = {}
     /\ ret.splitValues_left \cup ret.splitValues_right
          = { FeatureOf(arg.sampleIcs_right[i]) : i \in BothReal(arg.sampleIcs_right) }
     /\ \A idx \in Elems(ret.sampleIcs_left) : FeatureOf(idx) \in ret.splitValues_left
     /\ \A idx \in Elems(ret.sampleIcs_right) : FeatureOf(idx) \in ret.splitValues_right
     /\ Len(ret.sampleIcs_left) + Len(ret.sampleIcs_right)
          = Cardinality(BothReal(arg.sampleIcs_right))

\* the case of C7: a split of three categories, found among candidates of
\* which one was filtered out
C7_Witness ==
  /\ CatSplitReturned
  /\ ~Missing(ret.fitness)
  /\ Cardinality(ret.splitValues_left \cup ret.splitValues_right) = 3
  /\ Len(ret.sampleIcs_left) + Len(ret.sampleIcs_right) < Len(arg.sampleIcs_right)

\* C8: whenever categoricalFeatureSplit returns a non-Missing fitness both
\* partitions hold at least minSamples indices, and a greedy search that ends
\* with fewer than minSamples samples on a side (as it does when no category
\* was moved) gives Missing.
C8_CatBothSidesMinSamples ==
  CatSplitReturned =>
     /\ ~Missing(ret.fitness) =>
          /\ Len(ret.sampleIcs_left) >= arg.minSamples
          /\ Len(ret.sampleIcs_right) >= arg.minSamples
     /\ (ret.n_left < arg.minSamples \/ ret.n_right < arg.minSamples \/ ret.commits = 0)
          => Missing(ret.fitness)

\* the case of C8: the search moved a category and still ended with a side
\* below minSamples
C8_Witness ==
  /\ CatSplitReturned
  /\ Missing(ret.fitness)
  /\ ret.commits > 0
  /\ Len(ret.fv) >= 2 * arg.minSamples
  /\ (ret.n_left < arg.minSamples \/ ret.n_right < arg.minSamples)

----------------------------------------------------------------------------
(* Properties of bootstrapFromRealSamples *)

RealSet(featureIdx) ==
  { i \in DOMAIN features[featureIdx].data : ~isNAN(features[featureIdx].data[i]) }

\* C9: every in-bag index refers to a row whose reference-column value is
\* non-missing, and the out-of-bag list is exactly the non-missing rows
\* without the in-bag rows, each once.
C9_OobIsRealMinusInBag ==
  BootReturned =>
     /\ Elems(ret.ics) \subseteq RealSet(arg.featureIdx)
     /\ Elems(ret.oobIcs) = RealSet(arg.featureIdx) \ Elems(ret.ics)
     /\ Cardinality(Elems(ret.oobIcs)) = Len(ret.oobIcs)
     /\ Elems(ret.ics) \cap Elems(ret.oobIcs) = {}

\* the case of C9: a draw with replacement that repeats a row and leaves
\* rows out, from a column with missing values
C9_Witness ==
  /\ BootReturned
  /\ arg.withReplacement
  /\ Cardinality(Elems(ret.ics)) < Len(ret.ics)
  /\ ret.oobIcs # <<>>
  /\ RealSet(arg.featureIdx) # DOMAIN features[arg.featureIdx].data

\* C10: the call returns floor(sampleFraction * r) in-bag indices, r being the
\* number of non-missing rows of the reference column; the in-bag and the
\* out-of-bag list are sorted ascending; drawn without replacement, the in-bag
\* indices are pairwise distinct.
C10_InBagCountAndOrder ==
  BootReturned =>
     /\ Len(ret.ics)
          = (arg.sampleSize[1] * Cardinality(RealSet(arg.featureIdx))) \div arg.sampleSize[2]
     /\ IsAscending(ret.ics)
     /\ IsAscending(ret.oobIcs)
     /\ ~arg.withReplacement => Cardinality(Elems(ret.ics)) = Len(ret.ics)

\* the case of C10: three of four rows drawn without replacement, in an
\* order that the call had to sort
C10_Witness ==
  /\ BootReturned
  /\ ~arg.withReplacement
  /\ Len(ret.ics) = 3
  /\ Len(ret.oobIcs) = 1
  /\ ~IsAscending(ret.drawn)

----------------------------------------------------------------------------
(* Two Treedata objects built from the same input *)

\* the seeds handed to the constructor, a negative one among them
Seeds == {-1, 0, 42}

\* what utils::generateSeed may return at the time of a construction
ClockSeeds == {7, 8}

\* the generator: its k'th value is a pure function of the seed and of k (the
\* values themselves are arbitrary)
randomInteger(seed, k) == (seed * seed + 3 * seed * k + k * k + k) % 97

SeededStream(seed, len) == [k \in 1..len |-> randomInteger(seed, k)]

\* the constructor seeding from the clock whatever seed it is given
ConstructorSeed_Clock(seed, clock) == clock

\* the seed the constructor hands to randomInteger_.seed
ConstructorSeed(seed, clock) == IF seed < 0 THEN clock ELSE seed

\* both objects are built from BootColumns with the same seed argument, at
\* times clockA and clockB
InitRepro ==
  /\ \E seed \in Seeds, clockA \in ClockSeeds, clockB \in ClockSeeds :
       LET seedA == ConstructorSeed(seed, clockA)
           seedB == ConstructorSeed(seed, clockB)
           len   == StreamLen(BootColumns)
       IN  /\ features = Treedata(BootColumns, SeededStream(seedA, len))
           /\ twin = [kind |-> "twin", seed |-> seed,
                      clockA |-> clockA, clockB |-> clockB,
                      seedA |-> seedA, seedB |-> seedB,
                      features |-> Treedata(BootColumns, SeededStream(seedB, len)),
                      rngDraws |-> 0, ret |-> Idle]
  /\ name2idx = NoNames
  /\ sampleHeaders = NoSampleIds(BootColumns)
  /\ locals = NoLocals
  /\ options = NoOptions
  /\ rngDraws = 0
  /\ op = "idle"
  /\ arg = Idle
  /\ ret = Idle

\* the values a call takes from the generator of an object: the next nd
\* values behind those of the construction and of the earlier calls
NextDraws(F, seed, taken, nd) ==
  [k \in 1..nd |-> randomInteger(seed, nContrastDraws(F, nFeatures(F)) + taken + k)]

\* the same bootstrapFromRealSamples call on both objects
BootstrapOnBoth ==
  /\ op = "idle"
  /\ \E withReplacement \in BOOLEAN, sampleSize \in SampleSizes,
        featureIdx \in DOMAIN features :
       LET fail == ~(sampleSize[1] > 0) \/ (~withReplacement /\ sampleSize[1] > sampleSize[2])
           nd(F) == IF fail THEN 0
                    ELSE BootDrawCount(withReplacement, sampleSize, Len(RealIcs(F, featureIdx)))
           drawsA == NextDraws(features, twin.seedA, rngDraws, nd(features))
           drawsB == NextDraws(twin.features, twin.seedB, twin.rngDraws, nd(twin.features))
       IN  /\ rngDraws + nd(features) <= MaxDraws
           /\ arg' = [kind |-> "bootstrap", withReplacement |-> withReplacement,
                      sampleSize |-> sampleSize, featureIdx |-> featureIdx,
                      draws |-> drawsA]
           /\ ret' = bootstrapFromRealSamples(features, withReplacement, sampleSize,
                                              featureIdx, <<>>, <<>>, drawsA)
           /\ rngDraws' = rngDraws + nd(features)
           /\ twin' = [twin EXCEPT
                         !.ret = bootstrapFromRealSamples(twin.features, withReplacement,
                                   sampleSize, featureIdx, <<>>, <<>>, drawsB),
                         !.rngDraws = @ + nd(twin.features)]
  /\ op' = "bootstrapFromRealSamples"
  /\ UNCHANGED <<dataset, locals, options>>

\* the callers take the results
ConsumeBoth ==
  /\ op # "idle"
  /\ op' = "idle"
  /\ arg' = Idle
  /\ ret' = Idle
  /\ twin' = [twin EXCEPT !.ret = Idle]
  /\ UNCHANGED <<dataset, rngDraws, locals, options>>

NextRepro == BootstrapOnBoth \/ ConsumeBoth

SpecRepro == InitRepro /\ [][NextRepro]_vars

ContrastIcs(F) == { i \in DOMAIN F : i >= nFeatures(F) }

\* C11: two objects built from the same input with the same non-negative
\* seed have identical contrast columns, and after the same sequence of
\* bootstrapFromRealSamples calls the last call has left identical in-bag and
\* out-of-bag lists (and the same generator position) in both.
C11_SameSeedSameOutput ==
  twin.seed >= 0 =>
     /\ \A i \in ContrastIcs(features) : features[i] = twin.features[i]
     /\ rngDraws = twin.rngDraws
     /\ op = "bootstrapFromRealSamples" =>
          /\ ret.status = twin.ret.status
          /\ ret.ics = twin.ret.ics
          /\ ret.oobIcs = twin.ret.oobIcs

\* the case of C11: two objects seeded with 42 at different times, whose
\* contrast of column 0 is a proper permutation, after a second call that
\* drew at least two rows
C11_Witness ==
  /\ twin.seed = 42
  /\ twin.clockA # twin.clockB
  /\ features[nFeatures(features)].data # features[0].data
  /\ BootReturned
  /\ Len(ret.ics) >= 2
  /\ rngDraws > Len(arg.draws)

----------------------------------------------------------------------------
(* datadefs: raw strings and their encoding *)

\* the canonical spelling of a missing value
STR_NAN == "NA"

\* the spellings read as a missing value
NANs == {"NA", "NAN", "?", "", "NULL", "#N/A"}

\* upper-casing, on the strings that occur in the raw data of this model
toUpperCase(str) ==
  CASE str = "na" -> "NA"
    [] str = "nan" -> "NAN"
    [] str = "a" -> "A"
    [] str = "b" -> "B"
    [] OTHER -> str

isNAN_STR(str) == toUpperCase(str) \in NANs

\* the numbers that occur as raw strings
Numerals == 0..9

str2num(str) ==
  IF isNAN_STR(str) THEN NUM_NAN ELSE CHOOSE v \in Numerals : ToString(v) = str

strv2numv(strvec) == [i \in 0..(Len(strvec) - 1) |-> str2num(strvec[i + 1])]

EmptyMap == [k \in {} |-> 0]

MapPut(m, k, v) == [x \in (DOMAIN m) \cup {k} |-> IF x = k THEN v ELSE m[x]]

\* the encoding loop: a label not seen before gets the next code val
RECURSIVE strv2catvLoop(_, _, _, _)
strv2catvLoop(strvec, strIdx, enc, val) ==
  IF strIdx >= Len(strvec) THEN enc
  ELSE LET str == strvec[strIdx + 1]
       IN  IF isNAN_STR(str)
             THEN strv2catvLoop(strvec, strIdx + 1,
                    [enc EXCEPT !.data = MapPut(@, strIdx, NUM_NAN)], val)
           ELSE IF str \in DOMAIN enc.mapping
             THEN strv2catvLoop(strvec, strIdx + 1,
                    [enc EXCEPT !.data = MapPut(@, strIdx, enc.mapping[str])], val)
           ELSE strv2catvLoop(strvec, strIdx + 1,
                  [data |-> MapPut(enc.data, strIdx, val),
                   mapping |-> MapPut(enc.mapping, str, val),
                   backMapping |-> MapPut(enc.backMapping, val, str)], val + 1)

\* the codes counted from 1
strv2catv_CodesFromOne(strvec) ==
  strv2catvLoop(strvec, 0, [data |-> EmptyMap, mapping |-> EmptyMap,
                            backMapping |-> EmptyMap], 1)

\* yields catvec, mapping and backMapping; whatever the maps held is dropped
strv2catv(strvec) ==
  strv2catvLoop(strvec, 0, [data |-> EmptyMap, mapping |-> EmptyMap,
                            backMapping |-> EmptyMap], 0)

----------------------------------------------------------------------------
(* Treedata: construction from the raw matrix *)

\* features_[i] as the first loop of the constructor leaves it
Feature(name, isNum, rawVector) ==
  IF isNum
    THEN [name |-> name, isNumerical |-> TRUE, data |-> strv2numv(rawVector),
          mapping |-> EmptyMap, backMapping |-> EmptyMap]
    ELSE With(strv2catv(rawVector), LAMBDA enc :
           [name |-> name, isNumerical |-> FALSE, data |-> enc.data,
            mapping |-> enc.mapping, backMapping |-> enc.backMapping])

\* the "no two features have identical header" test of the first loop
HasDuplicateHeader(featureHeaders) ==
  \E i, j \in 1..Len(featureHeaders) : i < j /\ featureHeaders[i] = featureHeaders[j]

ContrastName(name) == name \o "_CONTRAST"

\* name2idx_ after name2idx_[F[i].name] = i for i = 0, 1, ...: a later
\* assignment to a name replaces the earlier one
NameIndexOf(F) ==
  [nm \in { F[i].name : i \in DOMAIN F } |->
     CHOOSE i \in DOMAIN F : F[i].name = nm /\ \A j \in DOMAIN F : F[j].name = nm => j <= i]

\* the constructor behind the file readers; status tells whether the object
\* was built or the constructor left by exit(1)
TreedataFromMatrix(featureHeaders, isNumericalFlags, rawMatrix, stream) ==
  IF HasDuplicateHeader(featureHeaders)
    THEN [status |-> "exit", features |-> <<>>, name2idx |-> NoNames]
    ELSE LET nF == Len(featureHeaders)
             user(i) == Feature(featureHeaders[i + 1], isNumericalFlags[i + 1],
                                rawMatrix[i + 1])
         IN  With([i \in 0..(2 * nF - 1) |->
                     IF i < nF THEN user(i)
                     ELSE [user(i - nF) EXCEPT !.name = ContrastName(@)]], LAMBDA F :
               [status |-> "constructed",
                features |-> permuteContrasts(F, stream),
                name2idx |-> NameIndexOf(F)])

----------------------------------------------------------------------------
(* Treedata: whiteList, blackList, replaceFeatureData, getRawFeatureData *)

\* the loop of whiteList(keepFeatureIcs); acc holds features_ and name2idx_
RECURSIVE whiteListLoop(_, _, _, _, _, _, _)
whiteListLoop(featureCopy, name2idxCopy, keepFeatureIcs, nFeaturesNew, i, iter, acc) ==
  IF i >= Len(keepFeatureIcs) THEN acc
  ELSE IF ~At(keepFeatureIcs, i)
    THEN whiteListLoop(featureCopy, name2idxCopy, keepFeatureIcs, nFeaturesNew,
                       i + 1, iter, acc)
  ELSE LET featureName  == featureCopy[i].name
           contrastName == ContrastName(featureName)
       IN  IF featureName \notin DOMAIN name2idxCopy \/ contrastName \notin DOMAIN name2idxCopy
             THEN [acc EXCEPT !.status = "exit"]
             ELSE whiteListLoop(featureCopy, name2idxCopy, keepFeatureIcs, nFeaturesNew,
                    i + 1, iter + 1,
                    [acc EXCEPT
                       !.features = [@ EXCEPT
                          ![iter] = featureCopy[name2idxCopy[featureName]],
                          ![nFeaturesNew + iter] = featureCopy[name2idxCopy[contrastName]]],
                       !.name2idx = MapPut(MapPut(@, featureName, iter),
                                           contrastName, nFeaturesNew + iter)])

\* whiteList(const vector<bool>&)
whiteList(F, n2i, keepFeatureIcs) ==
  IF Len(keepFeatureIcs) # nFeatures(F)
    THEN [status |-> "assert keepFeatureIcs.size() == nFeatures()",
          features |-> F, name2idx |-> n2i]
    ELSE LET nFeaturesNew == Cardinality({ i \in 1..Len(keepFeatureIcs) : keepFeatureIcs[i] })
         IN  whiteListLoop(F, n2i, keepFeatureIcs, nFeaturesNew, 0, 0,
               [status |-> "returned",
                features |-> [i \in 0..(2 * nFeaturesNew - 1) |-> F[i]],
                name2idx |-> NoNames])

\* what writing keepFeatureIcs[idx] past the end of the vector may do: the
\* write is lost in the unused bits of the vector, or the run is aborted
PastTheEnd == {"ignored", "abort"}

\* keepFeatureIcs of whiteList(names) (initial = FALSE) and blackList(names)
\* (initial = TRUE)
KeepFromNames(F, n2i, featureNames, initial) ==
  [i \in 1..nFeatures(F) |->
     IF \E nm \in featureNames : n2i[nm] = i - 1 THEN ~initial ELSE initial]

\* whiteList / blackList by names; getFeatureIdx leaves by exit(1) on a name
\* that name2idx_ does not hold
listByNames(F, n2i, featureNames, initial, ub) ==
  IF (\E nm \in featureNames : nm \in DOMAIN n2i /\ n2i[nm] >= nFeatures(F)) /\ ub = "abort"
    THEN [status |-> "aborted", features |-> F, name2idx |-> n2i]
  ELSE IF \E nm \in featureNames : nm \notin DOMAIN n2i
    THEN [status |-> "exit", features |-> F, name2idx |-> n2i]
  ELSE whiteList(F, n2i, KeepFromNames(F, n2i, featureNames, initial))

whiteListNames(F, n2i, featureNames, ub) == listByNames(F, n2i, featureNames, FALSE, ub)

blackList(F, n2i, featureNames, ub) == listByNames(F, n2i, featureNames, TRUE, ub)

\* the dimension test that never fails
DimensionMismatch_Never(F, featureIdx, n) == FALSE

\* the "data dimension mismatch" test of replaceFeatureData
DimensionMismatch(F, featureIdx, n) == n # Cardinality(DOMAIN F[featureIdx].data)

\* replaceFeatureData(featureIdx, const vector<num_t>&)
replaceFeatureData(F, featureIdx, featureData) ==
  IF DimensionMismatch(F, featureIdx, Len(featureData))
    THEN [status |-> "exit", features |-> F]
    ELSE [status |-> "returned",
          features |-> [F EXCEPT ![featureIdx] =
             [@ EXCEPT !.isNumerical = TRUE,
                       !.data = [i \in 0..(Len(featureData) - 1) |-> featureData[i + 1]],
                       !.mapping = EmptyMap,
                       !.backMapping = EmptyMap]]]

\* replaceFeatureData(featureIdx, const vector<string>&)
replaceFeatureDataRaw(F, featureIdx, rawFeatureData) ==
  IF DimensionMismatch(F, featureIdx, Len(rawFeatureData))
    THEN [status |-> "exit", features |-> F]
    ELSE With(strv2catv(rawFeatureData), LAMBDA enc :
           [status |-> "returned",
            features |-> [F EXCEPT ![featureIdx] =
               [@ EXCEPT !.isNumerical = FALSE,
                         !.data = enc.data,
                         !.mapping = enc.mapping,
                         !.backMapping = enc.backMapping]]])

\* the code printed as a number
LabelOfCode_Numeral(feature, data) == ToString(data)

\* backMapping[data]
LabelOfCode(feature, data) == feature.backMapping[data]

\* getRawFeatureData(featureIdx, const num_t data)
getRawFeatureData(F, featureIdx, data) ==
  IF isNAN(data) THEN [status |-> "returned", value |-> STR_NAN]
  ELSE IF F[featureIdx].isNumerical THEN [status |-> "returned", value |-> ToString(data)]
  ELSE IF data \notin DOMAIN F[featureIdx].backMapping
    THEN [status |-> "exit", value |-> ""]
  ELSE [status |-> "returned", value |-> LabelOfCode(F[featureIdx], data)]

\* getRawFeatureData(featureIdx, const size_t sampleIdx)
getRawFeatureDataAt(F, featureIdx, sampleIdx) ==
  getRawFeatureData(F, featureIdx, F[featureIdx].data[sampleIdx])

----------------------------------------------------------------------------
(* The operations on a Treedata object built from a raw matrix *)

\* the matrices read: a numerical and a categorical column; two categorical
\* columns of which the second is named like the contrast of the first; two
\* columns with the same header
DataInputs ==
  { [featureHeaders |-> <<"x", "y">>, isNumerical |-> <<TRUE, FALSE>>,
     rawMatrix |-> << <<"1", "NA", "2">>, <<"b", "a", "b">> >>],
    [featureHeaders |-> <<"y", "y_CONTRAST">>, isNumerical |-> <<FALSE, FALSE>>,
     rawMatrix |-> << <<"b", "a", "b">>, <<"a", "nan", "a">> >>],
    [featureHeaders |-> <<"x", "x">>, isNumerical |-> <<TRUE, TRUE>>,
     rawMatrix |-> << <<"1", "NA", "2">>, <<"3", "3", "3">> >>] }

DataSampleHeaders == [j \in 0..2 |-> <<"s0", "s1", "s2">>[j + 1]]

\* the seeds of the objects built from DataInputs
DataSeeds == {0, 42}

\* the next nd values of the generator seeded with seed, taken values behind
NextValues(seed, taken, nd) == [k \in 1..nd |-> randomInteger(seed, taken + k)]

\* rngDraws counts from the seeding on
InitData ==
  \E input \in DataInputs, seed \in DataSeeds :
    LET len == Len(input.featureHeaders) * Len(input.rawMatrix[1])
        T   == TreedataFromMatrix(input.featureHeaders, input.isNumerical,
                                  input.rawMatrix, SeededStream(seed, len))
    IN  /\ features = T.features
        /\ name2idx = T.name2idx
        /\ sampleHeaders = DataSampleHeaders
        /\ twin = [kind |-> "none", seed |-> seed]
        /\ locals = NoLocals
        /\ options = NoOptions
        /\ rngDraws = IF T.status = "constructed"
                        THEN nContrastDraws(T.features, nFeatures(T.features)) ELSE 0
        /\ op = IF T.status = "constructed" THEN "idle" ELSE "Treedata"
        /\ arg = [kind |-> "Treedata", featureHeaders |-> input.featureHeaders,
                  rawMatrix |-> input.rawMatrix, isNumerical |-> input.isNumerical]
        /\ ret = [status |-> T.status]

\* the values the next call takes from the generator
DataDraws(nd) == NextValues(twin.seed, rngDraws, nd)

\* keepFeatureIcs arguments: every bit-vector of at most two bits
KeepVectors == UNION { [1..k -> BOOLEAN] : k \in 0..2 }

\* names handed to whiteList / blackList: user names, a contrast name and
\* a name no column has
NameArgs == {"x", "y", "y_CONTRAST", "z"}

WhiteList ==
  /\ op = "idle"
  /\ \E keepFeatureIcs \in KeepVectors :
       LET W == whiteList(features, name2idx, keepFeatureIcs)
       IN  /\ arg' = [kind |-> "whiteList", keepFeatureIcs |-> keepFeatureIcs]
           /\ features' = W.features
           /\ name2idx' = W.name2idx
           /\ ret' = [status |-> W.status]
  /\ op' = "whiteList"
  /\ UNCHANGED <<sampleHeaders, rngDraws, twin, locals, options>>

\* the outcomes of the writes to keepFeatureIcs of a call by names
PastTheEndOutcomes(F, n2i, featureNames) ==
  IF \E nm \in featureNames : nm \in DOMAIN n2i /\ n2i[nm] >= nFeatures(F)
    THEN PastTheEnd ELSE {"ignored"}

WhiteListNames ==
  /\ op = "idle"
  /\ \E featureNames \in SUBSET NameArgs :
     \E ub \in PastTheEndOutcomes(features, name2idx, featureNames) :
       LET W == whiteListNames(features, name2idx, featureNames, ub)
       IN  /\ arg' = [kind |-> "whiteListNames", featureNames |-> featureNames]
           /\ features' = W.features
           /\ name2idx' = W.name2idx
           /\ ret' = [status |-> W.status]
  /\ op' = "whiteListNames"
  /\ UNCHANGED <<sampleHeaders, rngDraws, twin, locals, options>>

BlackList ==
  /\ op = "idle"
  /\ \E featureNames \in SUBSET NameArgs :
     \E ub \in PastTheEndOutcomes(features, name2idx, featureNames) :
       LET W == blackList(features, name2idx, featureNames, ub)
       IN  /\ arg' = [kind |-> "blackList", featureNames |-> featureNames]
           /\ features' = W.features
           /\ name2idx' = W.name2idx
           /\ ret' = [status |-> W.status]
  /\ op' = "blackList"
  /\ UNCHANGED <<sampleHeaders, rngDraws, twin, locals, options>>

\* value vectors handed to replaceFeatureData: of the length of the columns,
\* shorter and longer
NumericalReplacements == { <<5, NUM_NAN, 5>>, <<5>>, <<5, 6, 7, 8>> }

RawReplacements == { <<"a", "NA", "b">>, <<"a", "b">>, <<"a", "b", "a", "b">> }

ReplaceFeatureData ==
  /\ op = "idle"
  /\ \E featureIdx \in DOMAIN features, featureData \in NumericalReplacements :
       LET R0 == replaceFeatureData(features, featureIdx, featureData)
       IN  /\ arg' = [kind |-> "replaceFeatureData", featureIdx |-> featureIdx,
                      featureData |-> featureData]
           /\ features' = R0.features
           /\ ret' = [status |-> R0.status]
  /\ op' = "replaceFeatureData"
  /\ UNCHANGED <<name2idx, sampleHeaders, rngDraws, twin, locals, options>>

ReplaceFeatureDataRaw ==
  /\ op = "idle"
  /\ \E featureIdx \in DOMAIN features, rawFeatureData \in RawReplacements :
       LET R0 == replaceFeatureDataRaw(features, featureIdx, rawFeatureData)
       IN  /\ arg' = [kind |-> "replaceFeatureDataRaw", featureIdx |-> featureIdx,
                      featureData |-> rawFeatureData]
           /\ features' = R0.features
           /\ ret' = [status |-> R0.status]
  /\ op' = "replaceFeatureDataRaw"
  /\ UNCHANGED <<name2idx, sampleHeaders, rngDraws, twin, locals, options>>

PermuteContrasts ==
  /\ op = "idle"
  /\ LET nd == nContrastDraws(features, nFeatures(features))
     IN  /\ rngDraws + nd <= MaxDraws
         /\ features' = permuteContrasts(features, DataDraws(nd))
         /\ rngDraws' = rngDraws + nd
         /\ arg' = [kind |-> "permuteContrasts", draws |-> DataDraws(nd)]
  /\ ret' = [status |-> "returned"]
  /\ op' = "permuteContrasts"
  /\ UNCHANGED <<name2idx, sampleHeaders, twin, locals, options>>

\* values looked up by getRawFeatureData(featureIdx, data)
RawProbes == {NUM_NAN, 0, 1, 7}

GetRawFeatureData ==
  /\ op = "idle"
  /\ \/ \E featureIdx \in DOMAIN features, sampleIdx \in DOMAIN sampleHeaders :
          /\ arg' = [kind |-> "getRawFeatureData", featureIdx |-> featureIdx,
                     sampleIdx |-> sampleIdx,
                     data |-> features[featureIdx].data[sampleIdx]]
          /\ ret' = getRawFeatureDataAt(features, featureIdx, sampleIdx)
     \/ \E featureIdx \in DOMAIN features, data \in RawProbes :
          /\ arg' = [kind |-> "getRawFeatureData", featureIdx |-> featureIdx,
                     sampleIdx |-> -1, data |-> data]
          /\ ret' = getRawFeatureData(features, featureIdx, data)
  /\ op' = "getRawFeatureData"
  /\ UNCHANGED <<dataset, rngDraws, twin, locals, options>>

\* features_ sorted in place by the search
FeaturesAfterSearch_SortedInPlace(F, featureIdx, fv) ==
  [F EXCEPT ![featureIdx].data =
     [i \in DOMAIN @ |-> IF i < Len(fv) THEN fv[i + 1] ELSE NUM_NAN]]

\* features_ as a split search leaves it: the search sorts and filters copies
\* of the columns (fv is its copy of the feature column)
FeaturesAfterSearch(F, featureIdx, fv) == F

\* numericalFeatureSplit on the object, over all its samples
DataNumericalFeatureSplit ==
  /\ op = "idle"
  /\ \E targetIdx \in DOMAIN features, featureIdx \in DOMAIN features :
       /\ targetIdx # featureIdx
       /\ isFeatureNumerical(features, featureIdx)
       /\ LET right == Range0(Cardinality(DOMAIN sampleHeaders))
              tv    == getFeatureData(features, targetIdx,
                         SelectSeq(right, LAMBDA idx : ~isNAN(features[featureIdx].data[idx])))
              ubs   == IF ~isFeatureNumerical(features, targetIdx) /\ HasNaN(tv)
                          /\ Len(tv) >= 2
                         THEN UBChoices(Len(tv), 1) ELSE {NoUB}
          IN  \E ub \in ubs :
                With(numericalFeatureSplit(features, targetIdx, featureIdx, 1,
                                           <<>>, right, 0, ub), LAMBDA S :
                  /\ arg' = [kind |-> "split", targetIdx |-> targetIdx,
                             featureIdx |-> featureIdx, minSamples |-> 1,
                             sampleIcs_left |-> <<>>, sampleIcs_right |-> right,
                             splitValue |-> 0]
                  /\ ret' = S
                  /\ features' = FeaturesAfterSearch(features, featureIdx, S.fv))
  /\ op' = "numericalFeatureSplit"
  /\ UNCHANGED <<name2idx, sampleHeaders, rngDraws, twin, locals, options>>

\* categoricalFeatureSplit on the object, over all its samples
DataCategoricalFeatureSplit ==
  /\ op = "idle"
  /\ \E targetIdx \in DOMAIN features, featureIdx \in DOMAIN features :
       /\ targetIdx # featureIdx
       /\ ~isFeatureNumerical(features, featureIdx)
       /\ \E undef \in IF isFeatureNumerical(features, targetIdx)
                         THEN UndefModes ELSE {"reset"} :
            With(categoricalFeatureSplit(features, targetIdx, featureIdx, 1, <<>>,
                   Range0(Cardinality(DOMAIN sampleHeaders)), {}, {}, undef), LAMBDA S :
              /\ arg' = [kind |-> "split", targetIdx |-> targetIdx,
                         featureIdx |-> featureIdx, minSamples |-> 1,
                         sampleIcs_left |-> <<>>,
                         sampleIcs_right |-> Range0(Cardinality(DOMAIN sampleHeaders)),
                         splitValues_left |-> {}, splitValues_right |-> {}]
              /\ ret' = S
              /\ features' = FeaturesAfterSearch(features, featureIdx, S.fv))
  /\ op' = "categoricalFeatureSplit"
  /\ UNCHANGED <<name2idx, sampleHeaders, rngDraws, twin, locals, options>>

\* bootstrapFromRealSamples on the object, with the draws of its generator
DataBootstrap ==
  /\ op = "idle"
  /\ \E withReplacement \in BOOLEAN, sampleSize \in {<<0, 1>>, <<1, 1>>},
        featureIdx \in DOMAIN features :
       LET fail == ~(sampleSize[1] > 0) \/ (~withReplacement /\ sampleSize[1] > sampleSize[2])
           nd   == IF fail THEN 0
                   ELSE BootDrawCount(withReplacement, sampleSize,
                                      Len(RealIcs(features, featureIdx)))
       IN  /\ rngDraws + nd <= MaxDraws
           /\ arg' = [kind |-> "bootstrap", withReplacement |-> withReplacement,
                      sampleSize |-> sampleSize, featureIdx |-> featureIdx,
                      draws |-> DataDraws(nd)]
           /\ ret' = bootstrapFromRealSamples(features, withReplacement, sampleSize,
                                              featureIdx, <<>>, <<>>, DataDraws(nd))
           /\ rngDraws' = rngDraws + nd
  /\ op' = "bootstrapFromRealSamples"
  /\ UNCHANGED <<dataset, twin, locals, options>>

\* the caller takes the result; no call follows a failed construction
ConsumeData == op # "Treedata" /\ Consume

NextData ==
  \/ WhiteList
  \/ WhiteListNames
  \/ BlackList
  \/ ReplaceFeatureData
  \/ ReplaceFeatureDataRaw
  \/ PermuteContrasts
  \/ GetRawFeatureData
  \/ DataNumericalFeatureSplit
  \/ DataCategoricalFeatureSplit
  \/ DataBootstrap
  \/ ConsumeData

SpecData == InitData /\ [][NextData]_vars

----------------------------------------------------------------------------
(* Properties of the object: contrasts, names, category maps *)

\* an object exists (the constructor did not leave by exit)
Constructed == op # "Treedata"

Multiset(data) ==
  [v \in { data[i] : i \in DOMAIN data } |-> Cardinality({ i \in DOMAIN data : data[i] = v })]

UserIcs(F) == { i \in DOMAIN F : i < nFeatures(F) }

\* C12: in every state reached by construction followed by permuteContrasts,
\* whiteList / blackList and replaceFeatureData calls, the contrast column at
\* position F+i has the kind and the multiset of values of user column i.
C12_ContrastMirrorsUser ==
  Constructed =>
    \A i \in UserIcs(features) :
      /\ features[nFeatures(features) + i].isNumerical = features[i].isNumerical
      /\ Multiset(features[nFeatures(features) + i].data) = Multiset(features[i].data)

\* C13: after construction from pairwise-distinct user column names and after
\* any whiteList / blackList, the name index is a bijection between the 2F
\* column names and the positions: every column's name maps to its own
\* position, and the contrast of column i is named after column i.
C13_NameIndexBijective ==
  Constructed =>
    /\ DOMAIN name2idx = { features[i].name : i \in DOMAIN features }
    /\ \A i \in DOMAIN features : name2idx[features[i].name] = i
    /\ \A i \in UserIcs(features) :
         features[nFeatures(features) + i].name = ContrastName(features[i].name)

\* the positions of the user columns a keep vector keeps, in ascending order
KeptIcs(keepFeatureIcs) ==
  SelectSeq(Range0(Len(keepFeatureIcs)), LAMBDA i : keepFeatureIcs[i + 1])

UserNames(F) == { F[i].name : i \in UserIcs(F) }

\* C14: a whiteList(keep) call that returns leaves the kept user columns, in
\* their original order, at positions [0, F') and the contrast of the j-th kept
\* user column at F'+j, with nFeatures() = F' the number of set bits; a
\* blackList(names) call that returns leaves the dataset that whiteList of the
\* remaining user names leaves.
C14_WhiteListLayout ==
  [][ /\ (op' = "whiteList" /\ ret'.status = "returned") =>
           With(KeptIcs(arg'.keepFeatureIcs), LAMBDA kept :
             /\ nFeatures(features') = Len(kept)
             /\ \A j \in 1..Len(kept) :
                  /\ features'[j - 1] = features[kept[j]]
                  /\ features'[Len(kept) + j - 1] = features[nFeatures(features) + kept[j]])
      /\ (op' = "blackList" /\ ret'.status = "returned") =>
           With(whiteListNames(features, name2idx,
                               UserNames(features) \ arg'.featureNames, "ignored"),
                LAMBDA W : /\ W.status = "returned"
                           /\ features' = W.features
                           /\ name2idx' = W.name2idx)
    ]_vars

\* mapping and backMapping of a column are mutual inverses over C labels and
\* the codes 0 .. C-1
MapsInverse(feature) ==
  With(Cardinality(DOMAIN feature.mapping), LAMBDA C :
    /\ DOMAIN feature.backMapping = 0..(C - 1)
    /\ \A label \in DOMAIN feature.mapping :
         /\ feature.mapping[label] \in DOMAIN feature.backMapping
         /\ feature.backMapping[feature.mapping[label]] = label
    /\ \A code \in DOMAIN feature.backMapping :
         /\ feature.backMapping[code] \in DOMAIN feature.mapping
         /\ feature.mapping[feature.backMapping[code]] = code)

\* the labels of a raw vector that are not a spelling of the missing value
LabelsOf(rawVector) ==
  { rawVector[k] : k \in { j \in 1..Len(rawVector) : ~isNAN_STR(rawVector[j]) } }

\* C15: in every reachable state the two maps of every categorical column are
\* mutual inverses of equal size C with codes in [0, C); after
\* replaceFeatureData with numbers the column is numerical with both maps
\* empty; after replaceFeatureData with raw strings it is categorical, its
\* maps are over exactly the labels of the new values and every row holds the
\* code of its label (Missing for a missing value).
C15_CategoryMapsInverse ==
  Constructed =>
    /\ \A i \in DOMAIN features : ~features[i].isNumerical => MapsInverse(features[i])
    /\ (op = "replaceFeatureData" /\ ret.status = "returned") =>
         /\ features[arg.featureIdx].isNumerical
         /\ DOMAIN features[arg.featureIdx].mapping = {}
         /\ DOMAIN features[arg.featureIdx].backMapping = {}
    /\ (op = "replaceFeatureDataRaw" /\ ret.status = "returned") =>
         /\ ~features[arg.featureIdx].isNumerical
         /\ DOMAIN features[arg.featureIdx].mapping = LabelsOf(arg.featureData)
         /\ \A k \in 1..Len(arg.featureData) :
              features[arg.featureIdx].data[k - 1] =
                IF isNAN_STR(arg.featureData[k]) THEN NUM_NAN
                ELSE features[arg.featureIdx].mapping[arg.featureData[k]]

\* raw strings with two labels and a missing value have replaced a column
C15_Witness ==
  /\ op = "replaceFeatureDataRaw"
  /\ ret.status = "returned"
  /\ Cardinality(DOMAIN features[arg.featureIdx].backMapping) = 2
  /\ \E k \in DOMAIN features[arg.featureIdx].data :
       isNAN(features[arg.featureIdx].data[k])

----------------------------------------------------------------------------
(* Frame of the operations *)

\* C16: a numericalFeatureSplit or categoricalFeatureSplit call changes no
\* state of the object (columns with their kinds and maps, name index, sample
\* headers, generator); after construction the generator advances only in
\* permuteContrasts and bootstrapFromRealSamples; bootstrapFromRealSamples
\* changes nothing of the object but the generator.
C16_SplitAndBootstrapFrame ==
  [][ /\ op' \in {"numericalFeatureSplit", "categoricalFeatureSplit"} =>
           UNCHANGED <<features, name2idx, sampleHeaders, rngDraws, twin>>
      /\ rngDraws' # rngDraws =>
           op' \in {"permuteContrasts", "bootstrapFromRealSamples"}
      /\ op' = "bootstrapFromRealSamples" =>
           UNCHANGED <<features, name2idx, sampleHeaders, twin>>
    ]_vars

\* a numerical split search has returned a split after sorting its copy of
\* a feature column whose present values the object holds in another order
C16_Witness ==
  /\ NumSplitReturned
  /\ ~Missing(ret.fitness)
  /\ ret.fv # SelectSeq([k \in 1..Cardinality(DOMAIN sampleHeaders) |->
                           features[arg.featureIdx].data[k - 1]],
                        LAMBDA v : ~isNAN(v))

----------------------------------------------------------------------------
(* Failing calls *)

\* the parameters bootstrapFromRealSamples refuses: a sample fraction that is
\* not positive, or above 1 without replacement
BootRefused(withReplacement, sampleSize) ==
  \/ ~(sampleSize[1] > 0)
  \/ ~withReplacement /\ sampleSize[1] > sampleSize[2]

\* C17: bootstrapFromRealSamples without replacement and a sample fraction
\* above 1, or with a sample fraction <= 0, fails; the failing call has taken
\* no value from the generator and has written neither the in-bag nor the
\* out-of-bag list.
C17_BootstrapRefusesBeforeActing ==
  [][ (op' = "bootstrapFromRealSamples"
         /\ BootRefused(arg'.withReplacement, arg'.sampleSize)) =>
        /\ ret'.status # "returned"
        /\ rngDraws' = rngDraws
        /\ ret'.nDraws = 0
        /\ ret'.ics = arg'.ics
        /\ ret'.oobIcs = arg'.oobIcs
    ]_vars

\* a call without replacement for 3/2 of the rows has failed while the
\* caller's lists held the result of an earlier call
C17_Witness ==
  /\ op = "bootstrapFromRealSamples"
  /\ ~arg.withReplacement
  /\ arg.sampleSize = <<3, 2>>
  /\ ret.status = "exit"
  /\ arg.ics # <<>>
  /\ arg.oobIcs # <<>>

\* C18: replaceFeatureData, with numbers or with raw strings, given a vector
\* whose length is not the current length of the column fails and leaves the
\* values, the kind and the maps of the column as they were; given a vector of
\* the column's length it returns and the column keeps its length and name.
C18_ReplaceChecksLength ==
  [][ op' \in {"replaceFeatureData", "replaceFeatureDataRaw"} =>
        With(arg'.featureIdx, LAMBDA idx :
          IF Len(arg'.featureData) # Cardinality(DOMAIN features[idx].data)
            THEN /\ ret'.status = "exit"
                 /\ features'[idx] = features[idx]
            ELSE /\ ret'.status = "returned"
                 /\ DOMAIN features'[idx].data = DOMAIN features[idx].data
                 /\ features'[idx].name = features[idx].name)
    ]_vars

\* raw strings for four rows have been refused for a numerical column of
\* three rows
C18_Witness ==
  /\ op = "replaceFeatureDataRaw"
  /\ ret.status = "exit"
  /\ Len(arg.featureData) = 4
  /\ features[arg.featureIdx].isNumerical
  /\ Cardinality(DOMAIN features[arg.featureIdx].data) = 3

----------------------------------------------------------------------------
(* Raw values *)

\* every row of column featureIdx whose raw string is no spelling of the
\* missing value reads back as that string
ReadsBack(featureIdx, rawVector) ==
  \A k \in 1..Len(rawVector) :
    ~isNAN_STR(rawVector[k]) =>
      getRawFeatureDataAt(features, featureIdx, k - 1)
        = [status |-> "returned", value |-> rawVector[k]]

\* C19: getRawFeatureData returns the canonical NaN string for a Missing value
\* of a column of either kind and the backMapping entry for a present value of
\* a categorical column, and fails for a present code that backMapping does
\* not hold; a categorical column built from raw strings (by the constructor
\* or by replaceFeatureData) reads back the original label of every row that
\* is not missing.
C19_RawFeatureData ==
  /\ op = "getRawFeatureData" =>
       With(features[arg.featureIdx], LAMBDA feature :
         /\ isNAN(arg.data) => ret = [status |-> "returned", value |-> STR_NAN]
         /\ (~isNAN(arg.data) /\ ~feature.isNumerical
               /\ arg.data \in DOMAIN feature.backMapping) =>
              ret = [status |-> "returned", value |-> feature.backMapping[arg.data]]
         /\ (~isNAN(arg.data) /\ ~feature.isNumerical
               /\ arg.data \notin DOMAIN feature.backMapping) =>
              ret.status = "exit")
  /\ (op = "replaceFeatureDataRaw" /\ ret.status = "returned") =>
       ReadsBack(arg.featureIdx, arg.featureData)
  /\ (op = "idle" /\ arg.kind = "Treedata") =>
       \A i \in UserIcs(features) :
         ~arg.isNumerical[i + 1] => ReadsBack(i, arg.rawMatrix[i + 1])

\* the label of a row has been read from a categorical column that also
\* holds a missing value
C19_Witness ==
  /\ op = "getRawFeatureData"
  /\ arg.sampleIdx >= 0
  /\ ~features[arg.featureIdx].isNumerical
  /\ ret = [status |-> "returned", value |-> "a"]
  /\ \E k \in DOMAIN features[arg.featureIdx].data :
       isNAN(features[arg.featureIdx].data[k])

----------------------------------------------------------------------------
(* The split a numerical target asks for *)

\* tv[a] + ... + tv[b]
RECURSIVE SumFrom(_, _, _)
SumFrom(tv, a, b) == IF a > b THEN 0 ELSE tv[a] + SumFrom(tv, a + 1, b)

\* tv[a]^2 + ... + tv[b]^2
RECURSIVE SumSqFrom(_, _, _)
SumSqFrom(tv, a, b) == IF a > b THEN 0 ELSE tv[a] * tv[a] + SumSqFrom(tv, a + 1, b)

\* the squared error of tv[a..b] about its mean
SSE(tv, a, b) ==
  RSub(<<SumSqFrom(tv, a, b), 1>>,
       Norm(SumFrom(tv, a, b) * SumFrom(tv, a, b), b - a + 1))

\* left SSE + right SSE of the boundary after the k'th sorted row
BoundaryCost(tv, k) == RAdd(SSE(tv, 1, k), SSE(tv, k + 1, Len(tv)))

\* the boundary after the k'th sorted row lies between two different feature
\* values and leaves minSamples rows on either side
Admissible(fv, k, minSamples) ==
  /\ k >= minSamples
  /\ Len(fv) - k >= minSamples
  /\ fv[k] # fv[k + 1]

\* C20: for a numerical target without missing values among the rows searched,
\* a numericalFeatureSplit call that returns a fitness returns an admissible
\* boundary (the feature values on its two sides differ, both children hold at
\* least minSamples rows) whose left SSE + right SSE no admissible boundary
\* undercuts, and the fitness (S_tot - S_best) / S_tot of that boundary.
C20_BestAdmissibleBoundary ==
  (NumSplitReturned /\ isFeatureNumerical(features, arg.targetIdx)
     /\ ~Missing(ret.fitness) /\ ~HasNaN(ret.tv)) =>
    With(Len(ret.sampleIcs_left), LAMBDA k :
      /\ Admissible(ret.fv, k, arg.minSamples)
      /\ \A j \in 1..(Len(ret.fv) - 1) :
           Admissible(ret.fv, j, arg.minSamples) =>
             ~RLt(BoundaryCost(ret.tv, j), BoundaryCost(ret.tv, k))
      /\ ret.fitness = RDiv(RSub(SSE(ret.tv, 1, Len(ret.tv)), BoundaryCost(ret.tv, k)),
                            SSE(ret.tv, 1, Len(ret.tv))))

\* the boundaries the numerical-target sweep ranges over: k rows go left
Boundaries(tv, minSamples) == minSamples..(Len(tv) - 1)

\* C27: for a numerical target without missing values among the rows
\* searched, skipping the boundaries between two equal target values never
\* loses the optimum: a returned split has the least left SSE + right SSE
\* of all boundaries k with minSamples <= k <= n - 1, and its fitness is
\* (S_tot - S_best) / S_tot of that cost; when no split is returned although
\* n >= 2 * minSamples, no such boundary costs strictly less than the total
\* SSE.
C27_TieSkipKeepsOptimum ==
  (NumSplitReturned /\ isFeatureNumerical(features, arg.targetIdx)
     /\ ~HasNaN(ret.tv) /\ Len(ret.tv) >= 2 * arg.minSamples) =>
    With(SSE(ret.tv, 1, Len(ret.tv)), LAMBDA se_tot :
      IF ret.bestSplitIdx = -1
        THEN /\ Missing(ret.fitness)
             /\ \A j \in Boundaries(ret.tv, arg.minSamples) :
                  ~RLt(BoundaryCost(ret.tv, j), se_tot)
        ELSE With(BoundaryCost(ret.tv, ret.bestSplitIdx + 1), LAMBDA se_best :
               /\ ret.bestSplitIdx + 1 \in Boundaries(ret.tv, arg.minSamples)
               /\ \A j \in Boundaries(ret.tv, arg.minSamples) :
                    ~RLt(BoundaryCost(ret.tv, j), se_best)
               /\ RLt(se_best, se_tot)
               /\ ret.fitness = RDiv(RSub(se_tot, se_best), se_tot)))

\* a split is returned from a sweep that skipped a boundary between two
\* equal target values
C27_Witness ==
  /\ NumSplitReturned
  /\ isFeatureNumerical(features, arg.targetIdx)
  /\ ~HasNaN(ret.tv)
  /\ ret.bestSplitIdx # -1
  /\ \E i \in Boundaries(ret.tv, arg.minSamples) :
       NumTargetTieSkip(ret.tv, arg.minSamples, i)

----------------------------------------------------------------------------
(* The greedy category transfer of categoricalFeatureSplit, step by step *)

\* the two target kinds share the shape of the loop; the statements that
\* differ are picked by the kind of the target
MoveLeft(isNum, tv, ps, st, undef) ==
  IF isNum THEN NumMoveLeft(tv, ps, 1, st, undef) ELSE CatMoveLeft(tv, ps, 1, st)

MoveRight(isNum, tv, ps, st, undef) ==
  IF isNum THEN NumMoveRight(tv, ps, 1, st, undef) ELSE CatMoveRight(tv, ps, 1, st)

\* the test "the tentative split beats the best one so far"
Improves(isNum, moved, best) ==
  IF isNum THEN NumImproves(moved, best) ELSE CatImproves(moved, best)

\* the value the test stores as the new best: se_left + se_right, or
\* sf_left / n_left + sf_right / n_right
Impurity(isNum, moved) ==
  IF isNum THEN RAdd(moved.se_left, moved.se_right)
  ELSE RAdd(RDiv(<<moved.sf_left, 1>>, <<moved.n_left, 1>>),
            RDiv(<<moved.sf_right, 1>>, <<moved.n_right, 1>>))

\* the while test
GreedyContinues(fmap_right) == Cardinality(DOMAIN fmap_right) > 1

InitGreedy == InitSplit

\* the call up to the first while test; a call with fewer than 2 * minSamples
\* rows returns at once
GreedyEnter ==
  /\ op = "idle"
  /\ \E targetIdx \in {0, 1}, minSamples \in 1..MaxMinSamples,
        right \in IcsLists(nSamples(features), MaxIcs) :
     \E undef \in IF isFeatureNumerical(features, targetIdx) THEN UndefModes ELSE {"reset"} :
       With(getFilteredFeatureDataPair(features, targetIdx, 3, right), LAMBDA P :
       With(isFeatureNumerical(features, targetIdx), LAMBDA isNum :
       With(nRealValues(P.featureData2), LAMBDA n_tot :
         /\ arg' = [kind |-> "split", targetIdx |-> targetIdx, featureIdx |-> 3,
                    minSamples |-> minSamples, sampleIcs_left |-> <<>>,
                    sampleIcs_right |-> right, splitValues_left |-> {},
                    splitValues_right |-> {}]
         /\ IF n_tot < 2 * minSamples
              THEN /\ op' = "categoricalFeatureSplit"
                   /\ ret' = CatSplitBase(P, {}, {})
                   /\ locals' = NoLocals
              ELSE With(IF isNum THEN NumStats0(P.featureData1, n_tot)
                                 ELSE CatStats0(P.featureData1, n_tot), LAMBDA st0 :
                     /\ op' = "enter"
                     /\ ret' = Idle
                     /\ locals' =
                          [kind |-> "categoricalFeatureSplit", pc |-> "while",
                           isNum |-> isNum, undef |-> undef, P |-> P, n_tot |-> n_tot,
                           tot |-> IF isNum THEN st0.se_right ELSE st0.sf_right,
                           fmap_left |-> [d \in {} |-> <<>>],
                           fmap_right |-> map_data(P.featureData2),
                           st |-> st0,
                           best |-> IF isNum THEN st0.se_right
                                    ELSE RDiv(<<st0.sf_right, 1>>, <<n_tot, 1>>),
                           it_best |-> {}, cs |-> <<>>, k |-> 0,
                           before |-> st0, roundBest |-> RNaN, trial |-> EmptyMap,
                           commits |-> 0]))))
  /\ UNCHANGED <<dataset, rngDraws, twin, options>>

\* the while test; a round starts with it_best at fmap_right.end()
GreedyWhile ==
  /\ locals.kind = "categoricalFeatureSplit"
  /\ locals.pc = "while"
  /\ locals' = IF GreedyContinues(locals.fmap_right)
                 THEN [locals EXCEPT !.pc = "for",
                                     !.cs = KeysAscending(DOMAIN locals.fmap_right),
                                     !.k = 1, !.it_best = {},
                                     !.roundBest = locals.best, !.trial = EmptyMap]
                 ELSE [locals EXCEPT !.pc = "after"]
  /\ op' = "while"
  /\ UNCHANGED <<dataset, rngDraws, twin, arg, ret, options>>

\* the samples of category cs[k] go from right to left, and the split is
\* compared with the best one
GreedyTrialMove ==
  /\ locals.kind = "categoricalFeatureSplit"
  /\ locals.pc = "for"
  /\ locals.k <= Len(locals.cs)
  /\ With(locals.cs[locals.k], LAMBDA c :
     With(MoveLeft(locals.isNum, locals.P.featureData1, locals.fmap_right[c],
                   locals.st, locals.undef), LAMBDA moved :
       locals' = [locals EXCEPT
                    !.pc = "moved", !.before = locals.st, !.st = moved,
                    !.trial = MapPut(@, c, Impurity(locals.isNum, moved)),
                    !.best = IF Improves(locals.isNum, moved, @)
                               THEN Impurity(locals.isNum, moved) ELSE @,
                    !.it_best = IF Improves(locals.isNum, moved, locals.best)
                                  THEN {c} ELSE @]))
  /\ op' = "trialMove"
  /\ UNCHANGED <<dataset, rngDraws, twin, arg, ret, options>>

\* the samples of category cs[k] go back from left to right
GreedyTrialRevert ==
  /\ locals.kind = "categoricalFeatureSplit"
  /\ locals.pc = "moved"
  /\ locals' = [locals EXCEPT
                  !.pc = "for", !.k = @ + 1,
                  !.st = MoveRight(locals.isNum, locals.P.featureData1,
                                   locals.fmap_right[locals.cs[locals.k]],
                                   locals.st, locals.undef)]
  /\ op' = "trialRevert"
  /\ UNCHANGED <<dataset, rngDraws, twin, arg, ret, options>>

\* behind the for loop, a best category found: its samples go left for good
GreedyCommit ==
  /\ locals.kind = "categoricalFeatureSplit"
  /\ locals.pc = "for"
  /\ locals.k > Len(locals.cs)
  /\ locals.it_best # {}
  /\ With(CHOOSE b \in locals.it_best : TRUE, LAMBDA c :
       locals' = [locals EXCEPT
                    !.pc = "while", !.commits = @ + 1,
                    !.st = MoveLeft(locals.isNum, locals.P.featureData1,
                                    locals.fmap_right[c], locals.st, locals.undef),
                    !.fmap_left = [d \in (DOMAIN @) \cup {c} |->
                                     IF d \in DOMAIN @ THEN @[d] ELSE locals.fmap_right[c]],
                    !.fmap_right = Restrict(@, (DOMAIN @) \ {c})])
  /\ op' = "commit"
  /\ UNCHANGED <<dataset, rngDraws, twin, arg, ret, options>>

\* behind the for loop, no category found: break
GreedyStop ==
  /\ locals.kind = "categoricalFeatureSplit"
  /\ locals.pc = "for"
  /\ locals.k > Len(locals.cs)
  /\ locals.it_best = {}
  /\ locals' = [locals EXCEPT !.pc = "after"]
  /\ op' = "stop"
  /\ UNCHANGED <<dataset, rngDraws, twin, arg, ret, options>>

\* the end of the call behind the loop
GreedyReturn ==
  /\ locals.kind = "categoricalFeatureSplit"
  /\ locals.pc = "after"
  /\ ret' = CatSplitReturn(CatSplitBase(locals.P, {}, {}), locals.P.sampleIcs,
                           locals.isNum, locals.tot, locals.n_tot, arg.minSamples,
                           [fmap_left |-> locals.fmap_left, fmap_right |-> locals.fmap_right,
                            st |-> locals.st, se_best |-> locals.best,
                            nsf_best |-> locals.best])
  /\ locals' = NoLocals
  /\ op' = "categoricalFeatureSplit"
  /\ UNCHANGED <<dataset, rngDraws, twin, arg, options>>

ConsumeGreedy == op = "categoricalFeatureSplit" /\ Consume

NextGreedy ==
  \/ GreedyEnter
  \/ GreedyWhile
  \/ GreedyTrialMove
  \/ GreedyTrialRevert
  \/ GreedyCommit
  \/ GreedyStop
  \/ GreedyReturn
  \/ ConsumeGreedy

SpecGreedy == InitGreedy /\ [][NextGreedy]_vars

\* a call that has been entered is run on: the loop is straight-line code
\* of one thread, no step of which waits for anything
GreedyStep ==
  \/ GreedyWhile
  \/ GreedyTrialMove
  \/ GreedyTrialRevert
  \/ GreedyCommit
  \/ GreedyStop
  \/ GreedyReturn

\* a node whose categorical feature (column 3) has four categories, so that
\* a call can commit more than one of them
GreedyColumns ==
  << Column(TRUE,  <<0, 1, 10, 11, NUM_NAN>>),
     Column(FALSE, <<0, 0, 1, 1, 2>>),
     Column(TRUE,  <<1, 2, 3, 4, 5>>),
     Column(FALSE, <<0, 1, 2, 3, 3>>) >>

InitGreedyLive ==
  /\ features = Treedata(GreedyColumns, [k \in 1..StreamLen(GreedyColumns) |-> k])
  /\ name2idx = NoNames
  /\ sampleHeaders = NoSampleIds(GreedyColumns)
  /\ twin = NoTwin
  /\ locals = NoLocals
  /\ options = NoOptions
  /\ rngDraws = 0
  /\ op = "idle"
  /\ arg = Idle
  /\ ret = Idle

\* a call is inside the loop; in every such state a step of the loop can be
\* taken and changes op, so InLoop is ENABLED <<GreedyStep>>_vars
InLoop == locals.kind = "categoricalFeatureSplit"

\* weak fairness of the steps of the loop, WF_vars(GreedyStep), with its
\* enabling condition written out: the code of the loop waits for nothing
SpecGreedyLive ==
  InitGreedyLive /\ [][NextGreedy]_vars /\ ([]<>(~InLoop) \/ []<><<GreedyStep>>_vars)

----------------------------------------------------------------------------
(* Properties of the greedy category transfer *)

\* impurity a is strictly better than impurity b: a smaller squared error for
\* a numerical target, a greater normalised squared frequency for a
\* categorical one
Better(isNum, a, b) == IF isNum THEN RLt(a, b) ELSE RGt(a, b)

\* the category the round has committed
Committed == CHOOSE c \in locals.it_best : TRUE

\* C21: in every round of the greedy transfer that commits, the committed
\* category is one whose tentative move was strictly better than the best
\* value at the start of the round, no candidate's tentative move was
\* strictly better than its own, and every candidate whose tentative move
\* was equally good has a greater category code.
C21_CommitsBestSmallestCode ==
  op = "commit" =>
    /\ Committed \in DOMAIN locals.trial
    /\ Better(locals.isNum, locals.trial[Committed], locals.roundBest)
    /\ \A d \in DOMAIN locals.trial :
         /\ ~Better(locals.isNum, locals.trial[d], locals.trial[Committed])
         /\ locals.trial[d] = locals.trial[Committed] => Committed <= d

\* a round has committed the smaller of two categories whose tentative moves
\* were equally good
C21_Witness ==
  /\ op = "commit"
  /\ \E d \in DOMAIN locals.trial :
       d > Committed /\ locals.trial[d] = locals.trial[Committed]

\* C24: with a numerical target no removal of a sample empties the
\* accumulator it is taken from: after a tentative move and after a commit
\* the right statistics hold at least one sample, after a revert the left
\* statistics do.  Violated: every revert of the first round takes the last
\* sample out of the left statistics.
C24_DecrementLeavesASample ==
  (locals.kind = "categoricalFeatureSplit" /\ locals.isNum) =>
    /\ op \in {"trialMove", "commit"} => locals.st.n_right >= 1
    /\ op = "trialRevert" => locals.st.n_left >= 1

\* C24, the half that holds: the right statistics are never emptied
C24_RightKeepsASample ==
  (locals.kind = "categoricalFeatureSplit" /\ locals.isNum) =>
    (op \in {"trialMove", "commit"} => locals.st.n_right >= 1)

\* the sum of the squared counts of a frequency table
RECURSIVE SumSqOver(_, _)
SumSqOver(freq, D) ==
  IF D = {} THEN 0
  ELSE With(CHOOSE c \in D : TRUE, LAMBDA c :
         freq[c] * freq[c] + SumSqOver(freq, D \ {c}))

SumSqFreq(freq) == SumSqOver(freq, DOMAIN freq)

\* two frequency tables agree, a category that is absent counting as 0
SameCounts(f, g) ==
  \A c \in (DOMAIN f) \cup (DOMAIN g) : FreqOf(f, c) = FreqOf(g, c)

\* C25: with a categorical target, a tentative move of a category followed
\* by its revert restores n_left, n_right, both frequency tables (an absent
\* category counting as 0), sf_left and sf_right; and in every state of the
\* loop sf_left and sf_right are the sums of the squared counts of their
\* tables and n_left + n_right = n_tot.
C25_MoveRevertRestores ==
  (locals.kind = "categoricalFeatureSplit" /\ ~locals.isNum) =>
    /\ op = "trialRevert" =>
         /\ locals.st.n_left = locals.before.n_left
         /\ locals.st.n_right = locals.before.n_right
         /\ SameCounts(locals.st.freq_left, locals.before.freq_left)
         /\ SameCounts(locals.st.freq_right, locals.before.freq_right)
         /\ locals.st.sf_left = locals.before.sf_left
         /\ locals.st.sf_right = locals.before.sf_right
    /\ locals.st.sf_left = SumSqFreq(locals.st.freq_left)
    /\ locals.st.sf_right = SumSqFreq(locals.st.freq_right)
    /\ locals.st.n_left + locals.st.n_right = locals.n_tot

\* a revert of a category of more than one sample into a left side that
\* held samples already
C25_Witness ==
  /\ locals.kind = "categoricalFeatureSplit"
  /\ ~locals.isNum
  /\ op = "trialRevert"
  /\ locals.st.n_left >= 1
  /\ Len(locals.fmap_right[locals.cs[locals.k - 1]]) >= 2
  /\ locals.st.sf_left >= 1

\* the categories present in the node
Present == (DOMAIN locals.fmap_left) \cup (DOMAIN locals.fmap_right)

\* what every state of the loop satisfies: one category has gone left per
\* commit, at most C - 1 commits for C categories, a category is left on the
\* right, and a commit has made the best value strictly better
C26_LoopBounded ==
  locals.kind = "categoricalFeatureSplit" =>
    /\ locals.commits = Cardinality(DOMAIN locals.fmap_left)
    /\ (DOMAIN locals.fmap_left) \cap (DOMAIN locals.fmap_right) = {}
    /\ locals.commits <= Cardinality(Present) - 1
    /\ Cardinality(DOMAIN locals.fmap_right) >= 1
    /\ op = "commit" => Better(locals.isNum, locals.best, locals.roundBest)
    /\ op = "stop" => locals.best = locals.roundBest
    /\ \/ locals.pc \in {"while", "moved", "after"}
       \/ locals.pc = "for" /\ locals.k >= 1

\* C26: the greedy loop terminates for every input: each round either stops
\* or moves exactly one category from right to left, so there are at most
\* C - 1 commits for C categories present, the right side always keeps at
\* least one category, the best value strictly improves with every commit,
\* and every call that enters the loop returns.
C26_GreedyTerminates ==
  /\ []C26_LoopBounded
  /\ InLoop ~> (op = "categoricalFeatureSplit")

\* a call in its second commit, two categories still on the right
C26_Witness ==
  /\ InLoop
  /\ op = "commit"
  /\ locals.commits = 2
  /\ Cardinality(DOMAIN locals.fmap_right) = 2

----------------------------------------------------------------------------
(* The split searches on a node of six rows *)

\* six rows without missing values: a numerical target in three levels, a
\* categorical target in two blocks (A,A,A,B,B,B), an ascending numerical
\* feature, a categorical feature (R,R,G,G,B,B) and a categorical target
\* whose classes alternate (A,B,B,A,B,B)
ExampleColumns ==
  << Column(TRUE,  <<10, 10, 20, 20, 30, 30>>),
     Column(FALSE, <<0, 0, 0, 1, 1, 1>>),
     Column(TRUE,  <<1, 2, 3, 4, 5, 6>>),
     Column(FALSE, <<0, 0, 1, 1, 2, 2>>),
     Column(FALSE, <<0, 1, 1, 0, 1, 1>>) >>

ExampleTargets == {0, 1, 4}

\* the sample lists of the node: as many entries as rows, ascending, a row
\* may repeat (a sorted bootstrap sample)
ExampleIcs(n) ==
  { s \in [1..n -> 0..(n - 1)] : \A i \in 1..(n - 1) : s[i] <= s[i + 1] }

InitExamples ==
  /\ features = Treedata(ExampleColumns, [k \in 1..StreamLen(ExampleColumns) |-> k])
  /\ name2idx = NoNames
  /\ sampleHeaders = NoSampleIds(ExampleColumns)
  /\ rngDraws = 0
  /\ twin = NoTwin
  /\ locals = NoLocals
  /\ options = NoOptions
  /\ op = "idle"
  /\ arg = Idle
  /\ ret = Idle

ExampleNumericalFeatureSplit ==
  /\ op = "idle"
  /\ \E targetIdx \in ExampleTargets, minSamples \in 1..MaxMinSamples,
        right \in ExampleIcs(nSamples(features)) :
       LET tv  == getFeatureData(features, targetIdx,
                                 SelectSeq(right, LAMBDA idx : ~isNAN(features[2].data[idx])))
           ubs == IF ~isFeatureNumerical(features, targetIdx) /\ HasNaN(tv)
                     /\ Len(tv) >= 2 * minSamples
                    THEN UBChoices(Len(tv), minSamples) ELSE {NoUB}
       IN  \E ub \in ubs :
             /\ arg' = [kind |-> "split", targetIdx |-> targetIdx, featureIdx |-> 2,
                        minSamples |-> minSamples, sampleIcs_left |-> <<>>,
                        sampleIcs_right |-> right, splitValue |-> 0]
             /\ ret' = numericalFeatureSplit(features, targetIdx, 2, minSamples,
                                             <<>>, right, 0, ub)
  /\ op' = "numericalFeatureSplit"
  /\ UNCHANGED <<dataset, rngDraws, twin, locals, options>>

ExampleCategoricalFeatureSplit ==
  /\ op = "idle"
  /\ \E targetIdx \in ExampleTargets, minSamples \in 1..MaxMinSamples,
        right \in ExampleIcs(nSamples(features)) :
     \E undef \in IF isFeatureNumerical(features, targetIdx) THEN UndefModes ELSE {"reset"} :
       /\ arg' = [kind |-> "split", targetIdx |-> targetIdx, featureIdx |-> 3,
                  minSamples |-> minSamples, sampleIcs_left |-> <<>>,
                  sampleIcs_right |-> right, splitValues_left |-> {},
                  splitValues_right |-> {}]
       /\ ret' = categoricalFeatureSplit(features, targetIdx, 3, minSamples,
                                         <<>>, right, {}, {}, undef)
  /\ op' = "categoricalFeatureSplit"
  /\ UNCHANGED <<dataset, rngDraws, twin, locals, options>>

NextExamples ==
  \/ ExampleNumericalFeatureSplit
  \/ ExampleCategoricalFeatureSplit
  \/ Consume

SpecExamples == InitExamples /\ [][NextExamples]_vars

----------------------------------------------------------------------------
(* Properties of the searches on the node of six rows *)

\* the call is the search over all six rows, each once
OnAllRows == arg.sampleIcs_right = Range0(nSamples(features))

\* C22: categoricalFeatureSplit on target=[10,10,20,20,30,30] (numerical),
\* feature=[R,R,G,G,B,B], minSamples=1 returns left categories {R}, right
\* categories {G,B} and the fitness (S_tot - S_best)/S_tot of the committed
\* split, S_tot = 400 and S_best = 0 + 100: 3/4.
C22_ExampleCommittedSplit ==
  (CatSplitReturned /\ arg.targetIdx = 0 /\ arg.minSamples = 1 /\ OnAllRows) =>
    /\ ret.splitValues_left = {0}
    /\ ret.splitValues_right = {1, 2}
    /\ ret.fitness = <<3, 4>>
    /\ ret.fitness = RDiv(RSub(SSE(ret.tv, 1, 6),
                               RAdd(SSE(<<10, 10>>, 1, 2), SSE(<<20, 20, 30, 30>>, 1, 4))),
                          SSE(ret.tv, 1, 6))

\* the search of the example has returned
C22_Witness ==
  /\ CatSplitReturned
  /\ arg.targetIdx = 0
  /\ arg.minSamples = 1
  /\ OnAllRows
  /\ ~Missing(ret.fitness)

\* C22 as stated: the same call returns left {R}, right {G,B} and the fitness
\* 1 - (0 + 200) / 466.67 = 4/7.
C22_AsStated ==
  (CatSplitReturned /\ arg.targetIdx = 0 /\ arg.minSamples = 1 /\ OnAllRows) =>
    /\ ret.splitValues_left = {0}
    /\ ret.splitValues_right = {1, 2}
    /\ ret.fitness = RDiv(RSub(<<1400, 3>>, <<200, 1>>), <<1400, 3>>)


\* the counts of the target classes among tv[a..b]
ClassCounts(tv, a, b) ==
  [c \in {tv[i] : i \in a..b} |-> Cardinality({i \in a..b : tv[i] = c})]

\* the squared frequency of tv[a..b] divided by the number of its rows
NormSqFreq(tv, a, b) == Norm(SumSqFreq(ClassCounts(tv, a, b)), b - a + 1)

\* C28: for a categorical target without missing values among the rows
\* searched, a numericalFeatureSplit call that returns a fitness has chosen
\* a split whose normalised squared frequency, left plus right, is strictly
\* greater than that of the unsplit node, and the fitness is strictly
\* positive and at most 1; on target A,A,A,B,B,B and feature 1..6 with
\* minSamples = 1 the call returns the threshold 3.
C28_CategoricalTargetFitness ==
  /\ (NumSplitReturned /\ ~isFeatureNumerical(features, arg.targetIdx)
        /\ ~HasNaN(ret.tv) /\ ~Missing(ret.fitness)) =>
       With(Len(ret.sampleIcs_left), LAMBDA k :
         /\ k >= 1 /\ k < Len(ret.tv)
         /\ RGt(RAdd(NormSqFreq(ret.tv, 1, k), NormSqFreq(ret.tv, k + 1, Len(ret.tv))),
                NormSqFreq(ret.tv, 1, Len(ret.tv)))
         /\ RGt(ret.fitness, RZero)
         /\ ~RGt(ret.fitness, <<1, 1>>))
  /\ (NumSplitReturned /\ arg.targetIdx = 1 /\ arg.minSamples = 1 /\ OnAllRows) =>
       /\ ret.tv = <<0, 0, 0, 1, 1, 1>>
       /\ ret.fv = <<1, 2, 3, 4, 5, 6>>
       /\ ~Missing(ret.fitness)
       /\ ret.splitValue = 3
       /\ Len(ret.sampleIcs_left) = 3

\* a split is returned although the integer division has lowered the initial
\* best value below the normalised squared frequency of the node
C28_Witness ==
  /\ NumSplitReturned
  /\ ~isFeatureNumerical(features, arg.targetIdx)
  /\ ~HasNaN(ret.tv)
  /\ ~Missing(ret.fitness)
  /\ SumSqFreq(ClassCounts(ret.tv, 1, Len(ret.tv))) % Len(ret.tv) # 0
  /\ RLt(ret.fitness, <<1, 1>>)

\* what a permuteContrasts call leaves alone
PermuteFrame ==
  /\ name2idx' = name2idx
  /\ sampleHeaders' = sampleHeaders
  /\ DOMAIN features' = DOMAIN features
  /\ \A i \in DOMAIN features :
       IF i < nFeatures(features)
         THEN features'[i] = features[i]
         ELSE /\ features'[i].isNumerical = features[i].isNumerical
              /\ DOMAIN features'[i].data = DOMAIN features[i].data
              /\ \A r \in DOMAIN features[i].data :
                   isNAN(features'[i].data[r]) = isNAN(features[i].data[r])
              /\ Multiset(features'[i].data) = Multiset(features[i].data)

\* C29: permuteContrasts rearranges only the non-missing values of each
\* contrast column among that column's non-missing rows: a row that is
\* missing in a contrast column before the call is missing after it (and no
\* other), the values of the column are the same multiset, every user
\* column, the name index and the sample identifiers are unchanged, and each
\* contrast column keeps its length.
C29_PermuteContrastsFrame ==
  [][(op = "idle" /\ op' = "permuteContrasts") => PermuteFrame]_vars

\* a call has shuffled a contrast column that holds a missing value in front
\* of a non-missing one: it no longer reads like the column it was copied from
C29_Witness ==
  /\ op = "permuteContrasts"
  /\ \E i \in UserIcs(features) :
       With(features[nFeatures(features) + i].data, LAMBDA contrast :
         /\ contrast # features[i].data
         /\ \E r, q \in DOMAIN contrast :
              r < q /\ isNAN(contrast[r]) /\ ~isNAN(contrast[q]))

\* a call of whiteList(names) or blackList(names) is taken
ListByNamesCall == op = "idle" /\ op' \in {"whiteListNames", "blackList"}

\* every write keepFeatureIcs[getFeatureIdx(name)] of the call lies inside
\* the vector of length nFeatures()
WritesInsideKeepVector ==
  \A nm \in arg'.featureNames : name2idx[nm] < nFeatures(features)

\* C30: in a whiteList(names) or blackList(names) call whose names are all
\* known to the name index, user names and contrast names alike, every write
\* to the keep vector lies inside its nFeatures() entries; a call with a
\* name the index does not know ends in a failure and leaves the dataset
\* unchanged.  Violated: the index of a contrast name is nFeatures() or
\* more, so the write for it lies behind the end of the vector.
C30_NamesWriteInsideBounds ==
  [][ListByNamesCall =>
        /\ arg'.featureNames \subseteq DOMAIN name2idx => WritesInsideKeepVector
        /\ ~(arg'.featureNames \subseteq DOMAIN name2idx) =>
             /\ ret'.status \in {"exit", "aborted"}
             /\ UNCHANGED dataset
    ]_vars

\* C30, the half that holds: a name the index does not know ends the call in
\* a failure that leaves the dataset unchanged
C30_UnknownNameFails ==
  [][(ListByNamesCall /\ ~(arg'.featureNames \subseteq DOMAIN name2idx)) =>
        (ret'.status \in {"exit", "aborted"} /\ UNCHANGED dataset)
    ]_vars

----------------------------------------------------------------------------
\* The general options read from the command line

GENERAL_DEFAULT_PRINT_HELP == FALSE
GENERAL_DEFAULT_DATA_DELIMITER == "\t"
GENERAL_DEFAULT_HEADER_DELIMITER == ":"
GENERAL_DEFAULT_MIN_SAMPLES == 5

\* the longest command line that is read (the program name left out)
MaxArgs == 4

\* the words a command line is made of
ArgWords ==
  {"-D", "--data_delim", "-H", "--head_delim", "-h", "-I", ",", ";"}

\* the command lines of at most MaxArgs words
CommandLines == UNION {[1..n -> ArgWords] : n \in 0..MaxArgs}

\* a word that names an option
IsOptionWord(w) == w \in {"-D", "--data_delim", "-H", "--head_delim", "-h", "-I"}

\* the places of the command line where the option stands, short or long
OptionPlaces(argv, short, long) ==
  {i \in 1..Len(argv) : argv[i] = "-" \o short \/ argv[i] = "--" \o long}

\* ArgParse::getFlag: the flag is raised when the option stands on the line
getFlag(argv, short, long, returnValue) ==
  IF OptionPlaces(argv, short, long) # {} THEN TRUE ELSE returnValue

\* ArgParse::getArgument: the word after the first place of the option,
\* when there is one and it is not itself an option; else the value is kept
getArgument(argv, short, long, returnValue) ==
  With(OptionPlaces(argv, short, long), LAMBDA places :
    IF places = {} THEN returnValue
    ELSE With(CHOOSE i \in places : \A j \in places : i <= j, LAMBDA i :
           IF i < Len(argv) /\ ~IsOptionWord(argv[i + 1])
           THEN argv[i + 1] ELSE returnValue))

\* operator>> of a stream into a string: the first word of the stream
\* (the words of ArgWords hold no white space); an empty stream clears it
ExtractWord(stream) == stream

\* General_options::General_options: every member starts from its default
\* and is then read from the parser; the two delimiters are read into the
\* strings dataDelimiter and headerDelimiter declared in the body, which
\* hide the members of the same names until the constructor returns
General_options(argv) ==
  With(ExtractWord(getArgument(argv, "D", "data_delim", "")),
       LAMBDA dataDelimiter_local :
  With(ExtractWord(getArgument(argv, "H", "head_delim", "")),
       LAMBDA headerDelimiter_local :
    [kind            |-> "General_options",
     argv            |-> argv,
     printHelp       |-> getFlag(argv, "h", "help", GENERAL_DEFAULT_PRINT_HELP),
     input           |-> getArgument(argv, "I", "input", ""),
     targetStr       |-> getArgument(argv, "i", "target", ""),
     output          |-> getArgument(argv, "O", "output", ""),
     whiteList       |-> getArgument(argv, "W", "whitelist", ""),
     blackList       |-> getArgument(argv, "B", "blacklist", ""),
     log             |-> getArgument(argv, "L", "log", ""),
     dataDelimiter   |-> GENERAL_DEFAULT_DATA_DELIMITER,
     headerDelimiter |-> GENERAL_DEFAULT_HEADER_DELIMITER,
     pruneFeatures   |-> GENERAL_DEFAULT_MIN_SAMPLES,
     locals          |-> [dataDelimiter   |-> dataDelimiter_local,
                          headerDelimiter |-> headerDelimiter_local]]))

\* the options of some command line, no data set read yet
InitOptions ==
  /\ features = <<>>
  /\ name2idx = EmptyMap
  /\ sampleHeaders = <<>>
  /\ rngDraws = 0
  /\ twin = NoTwin
  /\ op = "idle"
  /\ arg = Idle
  /\ ret = Idle
  /\ locals = NoLocals
  /\ \E argv \in CommandLines : options = General_options(argv)

\* General_options::help: prints the options and the defaults of the
\* delimiters and of the pruning; no member changes
OptionsHelp ==
  /\ op = "idle"
  /\ options.kind = "General_options"
  /\ op' = "help"
  /\ arg' = Idle
  /\ ret' = [dataDelimiterDefault   |-> "\\t",
             headerDelimiterDefault |-> GENERAL_DEFAULT_HEADER_DELIMITER,
             pruneFeaturesDefault   |-> GENERAL_DEFAULT_MIN_SAMPLES]
  /\ UNCHANGED <<dataset, rngDraws, twin, locals, options>>

ConsumeOptions == op = "help" /\ Consume

NextOptions == OptionsHelp \/ ConsumeOptions

SpecOptions == InitOptions /\ [][NextOptions]_vars

----------------------------------------------------------------------------
\* Properties of the general options

\* the value passed with an option: the word after its first place
Passed(argv, short, long) == getArgument(argv, short, long, "none")

\* C23: when the command line passes -D/--data_delim (or -H/--head_delim)
\* with a one-character value, the member dataDelimiter (headerDelimiter)
\* of the options is that character; without the option the member keeps
\* its default, the tabulator (the colon).  Violated: the members keep
\* their defaults whatever the line passes.
C23_DelimitersFollowCommandLine ==
  options.kind = "General_options" =>
    /\ Len(Passed(options.argv, "D", "data_delim")) = 1 =>
         options.dataDelimiter = Passed(options.argv, "D", "data_delim")
    /\ Len(Passed(options.argv, "H", "head_delim")) = 1 =>
         options.headerDelimiter = Passed(options.argv, "H", "head_delim")
    /\ OptionPlaces(options.argv, "D", "data_delim") = {} =>
         options.dataDelimiter = GENERAL_DEFAULT_DATA_DELIMITER
    /\ OptionPlaces(options.argv, "H", "head_delim") = {} =>
         options.headerDelimiter = GENERAL_DEFAULT_HEADER_DELIMITER

\* C23, the half that holds: without the option the member is the default
C23_DefaultsWithoutOption ==
  options.kind = "General_options" =>
    /\ OptionPlaces(options.argv, "D", "data_delim") = {} =>
         options.dataDelimiter = GENERAL_DEFAULT_DATA_DELIMITER
    /\ OptionPlaces(options.argv, "H", "head_delim") = {} =>
         options.headerDelimiter = GENERAL_DEFAULT_HEADER_DELIMITER

============================================================================
